---- MODULE Spec2Model ----
(***************************************************************************)
(* Lead-scoring backend: rule engine (utils/ruleEngine.js), intent         *)
(* classifier (utils/aiScorer.js), in-memory store (utils/dataStore.js)    *)
(* and the scoring, leads and offer routes.                                *)
(*                                                                         *)
(* Strings.  A JavaScript string is a sequence of atoms.  An atom is a     *)
(* single character, or a run of characters that no operation of the      *)
(* program splits (a fixed sentence of the program, a decimal number).     *)
(* Keywords, prefixes and every input that is matched against them are     *)
(* written character by character, so that toLowerCase, includes,          *)
(* startsWith, trim, split and the regular expressions act on characters.  *)
(* null and undefined are the one-atom sequences Null and Undefined; an    *)
(* absent property of an object is a field outside the record's DOMAIN.    *)
(***************************************************************************)
EXTENDS Integers, Sequences, FiniteSets, TLC

VARIABLES
  call,            \* the unit call in hand: a function, its arguments, its result
  offers,          \* DataStore.offers
  leads,           \* DataStore.leads
  results,         \* DataStore.results
  currentOfferId,  \* DataStore.currentOfferId
  currentLeadsId,  \* DataStore.currentLeadsId
  now,             \* Date.now()
  isConfigured,    \* AIScorer.isConfigured
  faults,          \* the sub-scorer call that throws, per position of a lead
  runs,            \* the locals of the POST /score handlers
  res              \* the response sent last

(* ------------------------------ strings -------------------------------- *)

Null == <<"<null>">>

Undefined == <<"<undefined>">>

\* a value that is not a string (an object or a number): string methods throw on it
NotAString == <<"<object>">>

\* the outcome of an evaluation that raised an exception
Thrown == [thrown |-> TRUE]

\* the lead argument when it is null or undefined
NullLead == [isNull |-> TRUE]

Range(s) == {s[i] : i \in DOMAIN s}

\* JavaScript truthiness of a string-or-null value: '' , null and undefined are falsy
Truthy(v) == v # <<>> /\ v # Null /\ v # Undefined

\* typeof v === 'string'
IsString(v) == v # Null /\ v # Undefined /\ v # NotAString

\* obj[field], undefined when the object has no such property
Get(obj, field) == IF field \in DOMAIN obj THEN obj[field] ELSE Undefined

UpperChars ==
  <<"A","B","C","D","E","F","G","H","I","J","K","L","M","N","O","P","Q","R","S","T","U","V","W","X","Y","Z">>

LowerChars ==
  <<"a","b","c","d","e","f","g","h","i","j","k","l","m","n","o","p","q","r","s","t","u","v","w","x","y","z">>

IndexIn(c, chars) == CHOOSE i \in DOMAIN chars : chars[i] = c

LowerChar(c) == IF c \in Range(UpperChars) THEN LowerChars[IndexIn(c, UpperChars)] ELSE c

\* U+0131, the dotless i: a lower-case letter whose upper case is the ASCII I, so
\* that lower-casing does not undo its upper-casing
DotlessI == "<dotless i>"

UpperChar(c) ==
  IF c \in Range(LowerChars) THEN UpperChars[IndexIn(c, LowerChars)]
  ELSE IF c = DotlessI THEN "I"
  ELSE c

\* String.prototype.toLowerCase / toUpperCase
toLowerCase(s) == [i \in DOMAIN s |-> LowerChar(s[i])]

toUpperCase(s) == [i \in DOMAIN s |-> UpperChar(s[i])]

\* the characters \s matches and trim() strips
WhiteSpace == {" ", "\t", "\n", "\r"}

\* String.prototype.includes
includes(s, sub) ==
  \E i \in 0..(Len(s) - Len(sub)) : SubSeq(s, i + 1, i + Len(sub)) = sub

\* String.prototype.startsWith
startsWith(s, prefix) ==
  Len(prefix) <= Len(s) /\ SubSeq(s, 1, Len(prefix)) = prefix

\* String.prototype.trim
trim(s) ==
  LET keep == {i \in DOMAIN s : s[i] \notin WhiteSpace}
  IN IF keep = {} THEN <<>>
     ELSE SubSeq(s, CHOOSE i \in keep : \A j \in keep : i <= j,
                    CHOOSE i \in keep : \A j \in keep : j <= i)

(* ----------------------- utils/ruleEngine.js --------------------------- *)

DECISION_MAKER_ROLES ==
  << <<"c","e","o">>,
     <<"c","t","o">>,
     <<"c","f","o">>,
     <<"c","o","o">>,
     <<"p","r","e","s","i","d","e","n","t">>,
     <<"f","o","u","n","d","e","r">>,
     <<"o","w","n","e","r">>,
     <<"d","i","r","e","c","t","o","r">>,
     <<"v","p">>,
     <<"v","i","c","e"," ","p","r","e","s","i","d","e","n","t">>,
     <<"h","e","a","d"," ","o","f">>,
     <<"c","h","i","e","f">>,
     <<"m","a","n","a","g","e","r">>,
     <<"l","e","a","d">>,
     <<"s","e","n","i","o","r"," ","m","a","n","a","g","e","r">> >>

INFLUENCER_ROLES ==
  << <<"s","e","n","i","o","r">>,
     <<"p","r","i","n","c","i","p","a","l">>,
     <<"a","r","c","h","i","t","e","c","t">>,
     <<"s","p","e","c","i","a","l","i","s","t">>,
     <<"a","n","a","l","y","s","t">>,
     <<"c","o","o","r","d","i","n","a","t","o","r">>,
     <<"s","u","p","e","r","v","i","s","o","r">>,
     <<"t","e","a","m"," ","l","e","a","d">>,
     <<"p","r","o","j","e","c","t"," ","m","a","n","a","g","e","r">>,
     <<"p","r","o","d","u","c","t"," ","m","a","n","a","g","e","r">> >>

ICP_INDUSTRIES ==
  << <<"s","a","a","s">>,
     <<"s","o","f","t","w","a","r","e">>,
     <<"t","e","c","h","n","o","l","o","g","y">>,
     <<"t","e","c","h">>,
     <<"f","i","n","t","e","c","h">>,
     <<"e","d","t","e","c","h">>,
     <<"h","e","a","l","t","h","c","a","r","e"," ","t","e","c","h">>,
     <<"b","2","b">>,
     <<"e","n","t","e","r","p","r","i","s","e"," ","s","o","f","t","w","a","r","e">>,
     <<"c","l","o","u","d">>,
     <<"d","i","g","i","t","a","l">>,
     <<"p","l","a","t","f","o","r","m">>,
     <<"a","p","i">> >>

ADJACENT_INDUSTRIES ==
  << <<"f","i","n","a","n","c","e">>,
     <<"f","i","n","a","n","c","i","a","l"," ","s","e","r","v","i","c","e","s">>,
     <<"c","o","n","s","u","l","t","i","n","g">>,
     <<"m","a","r","k","e","t","i","n","g">>,
     <<"a","d","v","e","r","t","i","s","i","n","g">>,
     <<"m","e","d","i","a">>,
     <<"e","-","c","o","m","m","e","r","c","e">>,
     <<"r","e","t","a","i","l">>,
     <<"h","e","a","l","t","h","c","a","r","e">>,
     <<"e","d","u","c","a","t","i","o","n">>,
     <<"r","e","a","l"," ","e","s","t","a","t","e">>,
     <<"m","a","n","u","f","a","c","t","u","r","i","n","g">> >>

RECURSIVE anyIncluded(_, _, _)
\* for (const k of list) if (s.includes(k)) return true, from index i on
anyIncluded(s, list, i) ==
  IF i > Len(list) THEN FALSE
  ELSE IF includes(s, list[i]) THEN TRUE
  ELSE anyIncluded(s, list, i + 1)

\* variant: the influencer keywords are tried before the decision-maker keywords
calculateRoleScore_InfluencerFirst(role) ==
  IF ~Truthy(role) THEN 0
  ELSE LET roleLower == toLowerCase(role)
       IN IF anyIncluded(roleLower, INFLUENCER_ROLES, 1) THEN 10
          ELSE IF anyIncluded(roleLower, DECISION_MAKER_ROLES, 1) THEN 20
          ELSE 0

calculateRoleScore(role) ==
  IF ~Truthy(role) THEN 0
  ELSE LET roleLower == toLowerCase(role)
       IN IF anyIncluded(roleLower, DECISION_MAKER_ROLES, 1) THEN 20
          ELSE IF anyIncluded(roleLower, INFLUENCER_ROLES, 1) THEN 10
          ELSE 0

RECURSIVE anyUseCaseIncluded(_, _, _)
\* for (const useCase of offer.ideal_use_cases) if (s.includes(useCase.toLowerCase())) ...
anyUseCaseIncluded(s, useCases, i) ==
  IF i > Len(useCases) THEN FALSE
  ELSE IF includes(s, toLowerCase(useCases[i])) THEN TRUE
  ELSE anyUseCaseIncluded(s, useCases, i + 1)

\* the offer argument when it is null or undefined
NullOffer == [isNull |-> TRUE]

\* variant: the adjacent industries are tried before the offer's use cases and
\* the ICP industries
calculateIndustryScore_AdjacentFirst(industry, offer) ==
  IF ~Truthy(industry) THEN 0
  ELSE LET industryLower == toLowerCase(industry)
       IN IF anyIncluded(industryLower, ADJACENT_INDUSTRIES, 1) THEN 10
          ELSE IF /\ offer # NullOffer
                  /\ "ideal_use_cases" \in DOMAIN offer
                  /\ anyUseCaseIncluded(industryLower, offer.ideal_use_cases, 1) THEN 20
          ELSE IF anyIncluded(industryLower, ICP_INDUSTRIES, 1) THEN 20
          ELSE 0

\* variant: only the use cases of the offer are looked at
calculateIndustryScore_UseCasesOnly(industry, offer) ==
  IF ~Truthy(industry) THEN 0
  ELSE IF /\ offer # NullOffer
          /\ "ideal_use_cases" \in DOMAIN offer
          /\ anyUseCaseIncluded(toLowerCase(industry), offer.ideal_use_cases, 1) THEN 20
  ELSE 0

\* calculateIndustryScore(industry, offer)
calculateIndustryScore(industry, offer) ==
  IF ~Truthy(industry) THEN 0
  ELSE LET industryLower == toLowerCase(industry)
       IN IF /\ offer # NullOffer
             /\ "ideal_use_cases" \in DOMAIN offer
             /\ anyUseCaseIncluded(industryLower, offer.ideal_use_cases, 1) THEN 20
          ELSE IF anyIncluded(industryLower, ICP_INDUSTRIES, 1) THEN 20
          ELSE IF anyIncluded(industryLower, ADJACENT_INDUSTRIES, 1) THEN 10
          ELSE 0

requiredFields == <<"name", "role", "company", "industry", "location", "linkedin_bio">>

countCompleteFields(lead) ==
  Cardinality({i \in DOMAIN requiredFields :
                 LET v == Get(lead, requiredFields[i])
                 IN Truthy(v) /\ IsString(v) /\ Len(trim(v)) > 0})

totalFields == 6

\* variant: partial credit is rounded to the nearest integer
calculateCompletenessScore_Rounded(lead) ==
  LET completeFields == countCompleteFields(lead)
  IN IF completeFields = totalFields THEN 10
     ELSE (completeFields * 10 + 3) \div totalFields

\* Math.floor((completeFields / totalFields) * 10): the quotient is exact in
\* binary floating point for 3/6 and strictly between integers otherwise
calculateCompletenessScore(lead) ==
  LET completeFields == countCompleteFields(lead)
  IN IF completeFields = totalFields THEN 10
     ELSE (completeFields * 10) \div totalFields

Min(a, b) == IF a <= b THEN a ELSE b

\* variant: the completeness points are reported but not added to the total
calculateRuleScore_CompletenessNotAdded(lead, offer) ==
  LET roleScore == calculateRoleScore(Get(lead, "role"))
      industryScore == calculateIndustryScore(Get(lead, "industry"), offer)
      completenessScore == calculateCompletenessScore(lead)
  IN [roleScore |-> roleScore,
      industryScore |-> industryScore,
      completenessScore |-> completenessScore,
      total |-> Min(roleScore + industryScore, 50),
      details |-> <<>>]

\* variant: the completeness detail names the missing points as the number of
\* missing fields
calculateRuleScore_MissingFromScore(lead, offer) ==
  LET roleScore == calculateRoleScore(Get(lead, "role"))
      industryScore == calculateIndustryScore(Get(lead, "industry"), offer)
      completenessScore == calculateCompletenessScore(lead)
      score == roleScore + industryScore + completenessScore
      d1 == IF roleScore = 20 THEN <<"Decision maker role (+20 points)">>
            ELSE IF roleScore = 10 THEN <<"Influencer role (+10 points)">>
            ELSE <<"Non-decision maker role (0 points)">>
      d2 == IF industryScore = 20 THEN <<"Perfect industry match (+20 points)">>
            ELSE IF industryScore = 10 THEN <<"Adjacent industry match (+10 points)">>
            ELSE <<"No industry match (0 points)">>
      d3 == IF completenessScore = 10 THEN <<"All fields complete (+10 points)">>
            ELSE <<"Missing ", ToString(10 - completenessScore), " fields (-",
                   ToString(10 - completenessScore), " points)">>
  IN [roleScore |-> roleScore,
      industryScore |-> industryScore,
      completenessScore |-> completenessScore,
      total |-> Min(score, 50),
      details |-> <<d1, d2, d3>>]

calculateRuleScore(lead, offer) ==
  LET roleScore == calculateRoleScore(Get(lead, "role"))
      industryScore == calculateIndustryScore(Get(lead, "industry"), offer)
      completenessScore == calculateCompletenessScore(lead)
      score == roleScore + industryScore + completenessScore
      d1 == IF roleScore = 20 THEN <<"Decision maker role (+20 points)">>
            ELSE IF roleScore = 10 THEN <<"Influencer role (+10 points)">>
            ELSE <<"Non-decision maker role (0 points)">>
      d2 == IF industryScore = 20 THEN <<"Perfect industry match (+20 points)">>
            ELSE IF industryScore = 10 THEN <<"Adjacent industry match (+10 points)">>
            ELSE <<"No industry match (0 points)">>
      d3 == IF completenessScore = 10 THEN <<"All fields complete (+10 points)">>
            ELSE <<"Missing ", ToString(6 - countCompleteFields(lead)), " fields (-",
                   ToString(10 - completenessScore), " points)">>
  IN [roleScore |-> roleScore,
      industryScore |-> industryScore,
      completenessScore |-> completenessScore,
      total |-> Min(score, 50),
      details |-> <<d1, d2, d3>>]

\* variant: a field without content counts as missing
validateLeadData_ChecksContent(lead) ==
  LET missing == SelectSeq(requiredFields, LAMBDA f : ~Truthy(Get(lead, f)))
      errors == [i \in DOMAIN missing |-> <<"Missing field: ", missing[i]>>]
  IN [isValid |-> Len(errors) = 0, errors |-> errors]

\* validateLeadData(lead)
validateLeadData(lead) ==
  LET missing == SelectSeq(requiredFields, LAMBDA f : f \notin DOMAIN lead)
      errors == [i \in DOMAIN missing |-> <<"Missing field: ", missing[i]>>]
  IN [isValid |-> Len(errors) = 0, errors |-> errors]

(* ------------------------ utils/aiScorer.js ---------------------------- *)

High == <<"H","i","g","h">>

Medium == <<"M","e","d","i","u","m">>

Low == <<"L","o","w">>

FALLBACK_ROLE_TITLES ==
  << <<"c","e","o">>,
     <<"c","t","o">>,
     <<"c","f","o">>,
     <<"d","i","r","e","c","t","o","r">>,
     <<"v","p">>,
     <<"h","e","a","d">>,
     <<"m","a","n","a","g","e","r">> >>

FALLBACK_TECH_KEYWORDS ==
  << <<"t","e","c","h">>,
     <<"s","o","f","t","w","a","r","e">>,
     <<"s","a","a","s">>,
     <<"d","i","g","i","t","a","l">> >>

S_intentColon == <<"i","n","t","e","n","t",":">>

S_reasoningColon == <<"r","e","a","s","o","n","i","n","g",":">>

S_high == <<"h","i","g","h">>

S_medium == <<"m","e","d","i","u","m">>

S_low == <<"l","o","w">>

\* 'AI analysis completed', the default reasoning of parseAIResponse
GenericReasoning == <<"AI analysis completed">>

\* intentToPoints(intent): mapping[intent] || 30
intentToPoints(intent) ==
  IF intent = High THEN 50
  ELSE IF intent = Medium THEN 30
  ELSE IF intent = Low THEN 10
  ELSE 30

\* variant: High as soon as the role names a decision maker in a tech industry,
\* whether or not the profile is complete
getFallbackScore_IgnoresProfile(lead, offer) ==
  IF lead = NullLead
  THEN [intent |-> Low, reasoning |-> <<"Insufficient lead data for analysis">>,
        aiPoints |-> 10, source |-> "fallback"]
  ELSE LET role == Get(lead, "role")
           industry == Get(lead, "industry")
           hasDecisionMakerRole ==
             Truthy(role) /\ \E i \in DOMAIN FALLBACK_ROLE_TITLES :
                               includes(toLowerCase(role), FALLBACK_ROLE_TITLES[i])
           hasTechIndustry ==
             Truthy(industry) /\ \E i \in DOMAIN FALLBACK_TECH_KEYWORDS :
                                   includes(toLowerCase(industry), FALLBACK_TECH_KEYWORDS[i])
       IN IF hasDecisionMakerRole /\ hasTechIndustry
          THEN [intent |-> High,
                reasoning |-> <<"Fallback analysis: ",
                  "Decision maker in tech industry with complete profile indicates high intent">>,
                aiPoints |-> 50, source |-> "fallback"]
          ELSE IF hasDecisionMakerRole \/ hasTechIndustry
          THEN [intent |-> Medium,
                reasoning |-> <<"Fallback analysis: ",
                  "Some positive indicators but not all criteria met">>,
                aiPoints |-> 30, source |-> "fallback"]
          ELSE [intent |-> Low,
                reasoning |-> <<"Fallback analysis: ",
                  "Limited indicators of buying intent or decision-making authority">>,
                aiPoints |-> 10, source |-> "fallback"]

\* getFallbackScore(lead, offer); a call without arguments passes NullLead
getFallbackScore(lead, offer) ==
  IF lead = NullLead
  THEN [intent |-> Low,
        reasoning |-> <<"Insufficient lead data for analysis">>,
        aiPoints |-> 10,
        source |-> "fallback"]
  ELSE LET role == Get(lead, "role")
           industry == Get(lead, "industry")
           hasDecisionMakerRole ==
             Truthy(role) /\ \E i \in DOMAIN FALLBACK_ROLE_TITLES :
                               includes(toLowerCase(role), FALLBACK_ROLE_TITLES[i])
           hasTechIndustry ==
             Truthy(industry) /\ \E i \in DOMAIN FALLBACK_TECH_KEYWORDS :
                                   includes(toLowerCase(industry), FALLBACK_TECH_KEYWORDS[i])
           hasCompleteProfile ==
             \A f \in {"name", "role", "company", "industry"} :
               Truthy(Get(lead, f)) /\ Len(trim(Get(lead, f))) > 0
       IN IF hasDecisionMakerRole /\ hasTechIndustry /\ hasCompleteProfile
          THEN [intent |-> High,
                reasoning |-> <<"Fallback analysis: ",
                  "Decision maker in tech industry with complete profile indicates high intent">>,
                aiPoints |-> 50,
                source |-> "fallback"]
          ELSE IF hasDecisionMakerRole \/ hasTechIndustry
          THEN [intent |-> Medium,
                reasoning |-> <<"Fallback analysis: ",
                  "Some positive indicators but not all criteria met">>,
                aiPoints |-> 30,
                source |-> "fallback"]
          ELSE [intent |-> Low,
                reasoning |-> <<"Fallback analysis: ",
                  "Limited indicators of buying intent or decision-making authority">>,
                aiPoints |-> 10,
                source |-> "fallback"]

RECURSIVE split(_)
\* s.split('\n')
split(s) ==
  LET nl == {i \in DOMAIN s : s[i] = "\n"}
  IN IF nl = {} THEN <<s>>
     ELSE LET k == CHOOSE i \in nl : \A j \in nl : i <= j
          IN <<SubSeq(s, 1, k - 1)>> \o split(SubSeq(s, k + 1, Len(s)))

RECURSIVE skipSpace(_, _)
\* the first position from i on that holds no white space (Len(s) + 1 if none): \s*
skipSpace(s, i) ==
  IF i <= Len(s) /\ s[i] \in WhiteSpace THEN skipSpace(s, i + 1) ELSE i

\* the label matched after position i of the lower-cased line, <<>> if none: (high|medium|low)
labelAt(low, i) ==
  LET rest == SubSeq(low, i, Len(low))
  IN IF startsWith(rest, S_high) THEN S_high
     ELSE IF startsWith(rest, S_medium) THEN S_medium
     ELSE IF startsWith(rest, S_low) THEN S_low
     ELSE <<>>

\* line.match(/intent:\s*(high|medium|low)/i): the captured group of the leftmost
\* match, in the case the line has it; <<>> when the pattern occurs nowhere in the line
matchIntent(line) ==
  LET low == toLowerCase(line)
      hits == {p \in DOMAIN low :
                 /\ startsWith(SubSeq(low, p, Len(low)), S_intentColon)
                 /\ labelAt(low, skipSpace(low, p + Len(S_intentColon))) # <<>>}
  IN IF hits = {} THEN <<>>
     ELSE LET p == CHOOSE h \in hits : \A g \in hits : h <= g
              q == skipSpace(low, p + Len(S_intentColon))
          IN SubSeq(line, q, q + Len(labelAt(low, q)) - 1)

\* variant: the matched label is kept in the case the model wrote it
titleCase_AsWritten(m) == m

\* m.charAt(0).toUpperCase() + m.slice(1).toLowerCase()
titleCase(m) == <<UpperChar(m[1])>> \o toLowerCase(SubSeq(m, 2, Len(m)))

\* line.replace(/reasoning:\s*/i, '').trim() for a line that starts with 'reasoning:'
stripReasoning(line) ==
  trim(SubSeq(line, skipSpace(line, Len(S_reasoningColon) + 1), Len(line)))

RECURSIVE parseLines(_, _, _, _)
\* the for loop of parseAIResponse from line i on, with the current intent and reasoning
parseLines(lines, i, intent, reasoning) ==
  IF i > Len(lines) THEN [intent |-> intent, reasoning |-> reasoning]
  ELSE LET line == lines[i]
       IN IF startsWith(toLowerCase(line), S_intentColon)
          THEN LET intentMatch == matchIntent(line)
               IN parseLines(lines, i + 1,
                             IF intentMatch # <<>> THEN titleCase(intentMatch) ELSE intent,
                             reasoning)
          ELSE IF startsWith(toLowerCase(line), S_reasoningColon)
          THEN parseLines(lines, i + 1, intent, stripReasoning(line))
          ELSE parseLines(lines, i + 1, intent, reasoning)

\* parseAIResponse(aiResponse)
parseAIResponse(aiResponse) ==
  IF ~Truthy(aiResponse) THEN getFallbackScore(NullLead, NullOffer)
  ELSE IF ~IsString(aiResponse) THEN getFallbackScore(NullLead, NullOffer)  \* catch
  ELSE LET lines == split(trim(aiResponse))
           parsed == parseLines(lines, 1, Medium, GenericReasoning)
       IN [intent |-> parsed.intent,
           reasoning |-> parsed.reasoning,
           aiPoints |-> intentToPoints(parsed.intent),
           source |-> "gemini"]

\* value || 'Not provided'
orNotProvided(v) == IF Truthy(v) THEN v ELSE <<"Not provided">>

\* buildPrompt(lead, offer): reading a property of a null lead throws a TypeError
buildPrompt(lead, offer) ==
  IF lead = NullLead THEN Thrown
  ELSE [offerDetails |-> IF offer = NullOffer
                         THEN <<"No product/offer details provided">>
                         ELSE <<"Product/Offer: ">> \o Get(offer, "name"),
        leadDetails |-> [f \in Range(requiredFields) |-> orNotProvided(Get(lead, f))]]

\* what the Gemini call does: it throws (transport, authentication), or yields a text
BackendThrows == [kind |-> "throws"]

BackendText(text) == [kind |-> "text", text |-> text]

\* variant: buildPrompt runs before the try block, so its exception escapes
scoreLeadWithAI_PromptOutsideTry(lead, offer, configured, backend) ==
  IF ~configured THEN getFallbackScore(lead, offer)
  ELSE LET prompt == buildPrompt(lead, offer)
       IN IF prompt = Thrown THEN Thrown
          ELSE IF backend.kind = "throws" THEN getFallbackScore(lead, offer)
          ELSE parseAIResponse(backend.text)

\* scoreLeadWithAI(lead, offer) of a scorer with isConfigured = configured, against a
\* backend that behaves as `backend`
scoreLeadWithAI(lead, offer, configured, backend) ==
  IF ~configured THEN getFallbackScore(lead, offer)
  ELSE LET prompt == buildPrompt(lead, offer)
           tried == IF prompt = Thrown THEN Thrown
                    ELSE IF backend.kind = "throws" THEN Thrown
                    ELSE parseAIResponse(backend.text)
       IN IF tried = Thrown THEN getFallbackScore(lead, offer) ELSE tried

(* ------------------------ utils/dataStore.js --------------------------- *)
(* A Map is the sequence of its entries in insertion order; every entry    *)
(* carries its key as the field id.  Date.now() is the variable now, in    *)
(* milliseconds; an identifier is the reading of the clock it was made     *)
(* from, and a timestamp made by a second reading of the clock may be one  *)
(* millisecond later.                                                      *)

\* the value of currentOfferId and currentLeadsId when they are null
NoId == 0

\* what Map.get yields for a key the map does not hold, and a getter for nothing current
NoEntry == [id |-> NoId]

mapHas(m, id) == \E i \in DOMAIN m : m[i].id = id

\* Map.prototype.get
mapGet(m, id) == IF mapHas(m, id) THEN m[CHOOSE i \in DOMAIN m : m[i].id = id] ELSE NoEntry

\* Map.prototype.set: an existing key keeps its place and takes the new value
mapSet(m, entry) ==
  IF mapHas(m, entry.id)
  THEN [i \in DOMAIN m |-> IF m[i].id = entry.id THEN entry ELSE m[i]]
  ELSE Append(m, entry)

\* setOffer(offerData), the clock reading `at` for the id and `stamp` for createdAt
setOffer(offerData, at, stamp) ==
  [id |-> at, createdAt |-> stamp] @@ offerData

\* setLeads(leadsData)
setLeads(leadsData, at, stamp) ==
  [id |-> at, data |-> leadsData, uploadedAt |-> stamp, count |-> Len(leadsData)]

\* setResults(resultsData): the entry it stores, given the store's current pointers
setResults(resultsData, curOfferId, curLeadsId, at, stamp) ==
  [id |-> at,
   data |-> resultsData,
   offerId |-> curOfferId,
   leadsId |-> curLeadsId,
   scoredAt |-> stamp,
   count |-> Len(resultsData)]

\* getCurrentOffer() / getCurrentLeads()
getCurrent(m, currentId) == IF currentId = NoId THEN NoEntry ELSE mapGet(m, currentId)

RECURSIVE reduceLatest(_, _, _)
\* resultsArray.reduce((latest, current) => current.scoredAt > latest.scoredAt ? current : latest)
reduceLatest(arr, i, latest) ==
  IF i > Len(arr) THEN latest
  ELSE reduceLatest(arr, i + 1, IF arr[i].scoredAt > latest.scoredAt THEN arr[i] ELSE latest)

\* getLatestResults()
getLatestResults(m) == IF Len(m) = 0 THEN NoEntry ELSE reduceLatest(m, 2, m[1])

(* ------------------------- routes/scoring.js --------------------------- *)

\* variant: the classifier points are not added
finalScoreOf_AiPointsDropped(ruleTotal, aiPoints) == Min(ruleTotal, 100)

\* Math.min(ruleScore.total + aiScore.aiPoints, 100)
finalScoreOf(ruleTotal, aiPoints) == Min(ruleTotal + aiPoints, 100)

\* variant: the thresholds are exclusive
finalIntentOf_StrictlyAbove(finalScore) ==
  IF finalScore > 70 THEN High
  ELSE IF finalScore > 40 THEN Medium
  ELSE Low

\* the final intent level of a final score
finalIntentOf(finalScore) ==
  IF finalScore >= 70 THEN High
  ELSE IF finalScore >= 40 THEN Medium
  ELSE Low

RECURSIVE joinWith(_, _, _)
\* parts.join(sep), from part i on
joinWith(parts, sep, i) ==
  IF i > Len(parts) THEN <<>>
  ELSE IF i = Len(parts) THEN parts[i]
  ELSE parts[i] \o sep \o joinWith(parts, sep, i + 1)

\* variant: the classifier reasoning is added whatever it says
buildReasoning_PlaceholderKept(ruleScore, aiScore, finalScore) ==
  LET rulePart ==
        IF ruleScore.total > 0
        THEN << <<"Rule analysis: ", ToString(ruleScore.total), "/50 points">> >>
               \o (IF Len(ruleScore.details) > 0
                   THEN << <<"(">> \o joinWith(ruleScore.details, <<", ">>, 1) \o <<")">> >>
                   ELSE <<>>)
        ELSE <<>>
      aiPart ==
        IF Truthy(aiScore.reasoning)
        THEN << <<"AI analysis: ">> \o aiScore.reasoning >>
        ELSE <<>>
      finalPart ==
        IF finalScore >= 70 THEN << <<"High buying intent - strong fit and authority.">> >>
        ELSE IF finalScore >= 40 THEN << <<"Medium buying intent - some positive indicators.">> >>
        ELSE << <<"Low buying intent - limited fit or authority.">> >>
  IN joinWith(rulePart \o aiPart \o finalPart, <<" ">>, 1)

\* buildReasoning(ruleScore, aiScore, finalScore)
buildReasoning(ruleScore, aiScore, finalScore) ==
  LET rulePart ==
        IF ruleScore.total > 0
        THEN << <<"Rule analysis: ", ToString(ruleScore.total), "/50 points">> >>
               \o (IF Len(ruleScore.details) > 0
                   THEN << <<"(">> \o joinWith(ruleScore.details, <<", ">>, 1) \o <<")">> >>
                   ELSE <<>>)
        ELSE <<>>
      aiPart ==
        IF Truthy(aiScore.reasoning) /\ aiScore.reasoning # GenericReasoning
        THEN << <<"AI analysis: ">> \o aiScore.reasoning >>
        ELSE <<>>
      finalPart ==
        IF finalScore >= 70 THEN << <<"High buying intent - strong fit and authority.">> >>
        ELSE IF finalScore >= 40 THEN << <<"Medium buying intent - some positive indicators.">> >>
        ELSE << <<"Low buying intent - limited fit or authority.">> >>
  IN joinWith(rulePart \o aiPart \o finalPart, <<" ">>, 1)

\* a number the summary computes by arithmetic is a finite number or one of
\* NaN, Infinity, -Infinity
Num(n) == [number |-> n]

NaN == [nan |-> TRUE]

Infinity == [infinity |-> "+"]

NegInfinity == [infinity |-> "-"]

\* scoredLeads.filter(lead => lead.intent === intent).length
countIntent(scoredLeads, intent) ==
  Cardinality({i \in DOMAIN scoredLeads : scoredLeads[i].intent = intent})

RECURSIVE sumScores(_, _)
\* scores.reduce((sum, score) => sum + score, 0), from score i on
sumScores(scoredLeads, i) ==
  IF i > Len(scoredLeads) THEN 0
  ELSE scoredLeads[i].score + sumScores(scoredLeads, i + 1)

\* Math.max(...scores): -Infinity for no scores
mathMax(scoredLeads) ==
  IF Len(scoredLeads) = 0 THEN NegInfinity
  ELSE Num(CHOOSE m \in {scoredLeads[i].score : i \in DOMAIN scoredLeads} :
             \A i \in DOMAIN scoredLeads : scoredLeads[i].score <= m)

\* Math.min(...scores): Infinity for no scores
mathMin(scoredLeads) ==
  IF Len(scoredLeads) = 0 THEN Infinity
  ELSE Num(CHOOSE m \in {scoredLeads[i].score : i \in DOMAIN scoredLeads} :
             \A i \in DOMAIN scoredLeads : scoredLeads[i].score >= m)

\* variant: the average is cut to its integer part
mathRound_Floored(sum, total) ==
  IF total = 0 THEN NaN
  ELSE Num(sum \div total)

\* Math.round(sum / total): the nearest integer, a half rounds up; 0 / 0 is NaN
\* and Math.round(NaN) is NaN
mathRound(sum, total) ==
  IF total = 0 THEN NaN
  ELSE Num((2 * sum + total) \div (2 * total))

\* the text of a number of tenths: 167 reads "16.7"
fixed1(tenths) == <<ToString(tenths \div 10), ".", ToString(tenths % 10)>>

\* variant: the percentage is cut to one decimal
percentage_Truncated(count, total) ==
  IF total = 0 THEN <<"NaN", "%">>
  ELSE fixed1((1000 * count) \div total) \o <<"%">>

\* ((count / total) * 100).toFixed(1) + '%': the decimal text of the nearest
\* tenth; 0 / 0 is NaN and NaN.toFixed(1) is 'NaN'. (A quotient half-way between
\* two tenths needs a total that is a multiple of 16.)
percentage(count, total) ==
  IF total = 0 THEN <<"NaN", "%">>
  ELSE fixed1((2000 * count + total) \div (2 * total)) \o <<"%">>

\* calculateSummaryStats(scoredLeads)
calculateSummaryStats(scoredLeads) ==
  LET total == Len(scoredLeads)
      highIntent == countIntent(scoredLeads, High)
      mediumIntent == countIntent(scoredLeads, Medium)
      lowIntent == countIntent(scoredLeads, Low)
  IN [total_leads |-> total,
      intent_distribution |-> [high |-> highIntent, medium |-> mediumIntent, low |-> lowIntent],
      intent_percentages |-> [high |-> percentage(highIntent, total),
                              medium |-> percentage(mediumIntent, total),
                              low |-> percentage(lowIntent, total)],
      score_stats |-> [average |-> mathRound(sumScores(scoredLeads, 1), total),
                       maximum |-> mathMax(scoredLeads),
                       minimum |-> mathMin(scoredLeads)]]

\* the six lead fields every record of the output copies
leadFields(lead) == [f \in Range(requiredFields) |-> Get(lead, f)]

\* the record of a lead scored without an exception
scoredLead(lead, ruleScore, aiScore) ==
  LET finalScore == finalScoreOf(ruleScore.total, aiScore.aiPoints)
  IN leadFields(lead) @@
     [intent |-> finalIntentOf(finalScore),
      score |-> finalScore,
      reasoning |-> buildReasoning(ruleScore, aiScore, finalScore),
      breakdown |-> [rule_score |-> ruleScore.total,
                     ai_score |-> aiScore.aiPoints,
                     final_score |-> finalScore],
      details |-> [rule_breakdown |-> ruleScore.details,
                   ai_source |-> aiScore.source,
                   ai_reasoning |-> aiScore.reasoning]]

\* the record the catch block of the loop adds for a lead whose scoring threw
erroredLead(lead, message) ==
  leadFields(lead) @@
  [intent |-> Low,
   score |-> 0,
   reasoning |-> <<"Error during scoring: ">> \o message,
   breakdown |-> [rule_score |-> 0, ai_score |-> 0, final_score |-> 0],
   details |-> [error |-> TRUE, error_message |-> message]]

\* An exception raised inside a sub-scorer for one lead.  No lead the upload route
\* stores makes calculateRuleScore or scoreLeadWithAI throw, so such an exception
\* is a fault of the environment: the variable faults says for the lead at each
\* position of a collection which of its sub-scorer calls throws.
Faults == {"none", "ruleEngine", "classifier"}

\* error.message of the exception
faultMessage(fault) == <<"unexpected failure">>

\* the locals of a POST /score handler; i is the 1-based index of the lead in hand
IdleRun == [pc |-> "idle"]

NoRuleScore == [total |-> 0, details |-> <<>>]

\* variant: the results array is shared by the handlers, a run starts with the
\* records a run in progress has pushed
startedRun_SharedList(currentOffer, currentLeads) ==
  [pc |-> "loop",
   currentOffer |-> currentOffer,
   currentLeads |-> currentLeads,
   i |-> 1,
   ruleScore |-> NoRuleScore,
   scoredLeads |-> IF \E q \in DOMAIN runs : runs[q].pc = "await"
                   THEN runs[CHOOSE q \in DOMAIN runs : runs[q].pc = "await"].scoredLeads
                   ELSE <<>>,
   errors |-> <<>>]

\* the locals of a handler that has passed the precondition checks
startedRun(currentOffer, currentLeads) ==
  [pc |-> "loop",
   currentOffer |-> currentOffer,
   currentLeads |-> currentLeads,
   i |-> 1,
   ruleScore |-> NoRuleScore,
   scoredLeads |-> <<>>,
   errors |-> <<>>]

\* variant: the record is put in front of the earlier records
pushScored_Prepends(run, lead, ruleScore, aiScore) ==
  [run EXCEPT !.scoredLeads = <<scoredLead(lead, ruleScore, aiScore)>> \o @,
              !.ruleScore = NoRuleScore,
              !.i = @ + 1]

\* scoredLeads.push(scoredLead); the loop moves to the next lead
pushScored(run, lead, ruleScore, aiScore) ==
  [run EXCEPT !.scoredLeads = Append(@, scoredLead(lead, ruleScore, aiScore)),
              !.ruleScore = NoRuleScore,
              !.i = @ + 1]

\* variant: the catch block logs the error and adds no record
pushErrored_SkipsLead(run, lead, message) ==
  [run EXCEPT !.errors = Append(@, [lead |-> Get(lead, "name"), error |-> message]),
              !.ruleScore = NoRuleScore,
              !.i = @ + 1]

\* the catch block of the loop: errors.push(...), scoredLeads.push(...), next lead
pushErrored(run, lead, message) ==
  [run EXCEPT !.scoredLeads = Append(@, erroredLead(lead, message)),
              !.errors = Append(@, [lead |-> Get(lead, "name"), error |-> message]),
              !.ruleScore = NoRuleScore,
              !.i = @ + 1]

\* the fault of lead k in a plan
faultAt(plan, k) == IF k \in DOMAIN plan THEN plan[k] ELSE "none"

RECURSIVE runLoop(_, _, _)
\* The for loop from lead run.i on, up to the next suspension: the end of the
\* loop (pc = "finished"), or the await of a classifier call that goes to the
\* network (pc = "await").  A scorer that is not configured resolves without
\* input or output, so the loop goes on in the same turn of the event loop.
runLoop(run, plan, configured) ==
  IF run.i > Len(run.currentLeads.data) THEN [run EXCEPT !.pc = "finished"]
  ELSE LET lead == run.currentLeads.data[run.i]
       IN IF faultAt(plan, run.i) = "ruleEngine"
          THEN runLoop(pushErrored(run, lead, faultMessage("ruleEngine")), plan, configured)
          ELSE LET ruleScore == calculateRuleScore(lead, run.currentOffer)
               IN IF configured
                  THEN [run EXCEPT !.pc = "await", !.ruleScore = ruleScore]
                  ELSE IF faultAt(plan, run.i) = "classifier"
                  THEN runLoop(pushErrored(run, lead, faultMessage("classifier")),
                               plan, configured)
                  ELSE runLoop(pushScored(run, lead, ruleScore,
                                          scoreLeadWithAI(lead, run.currentOffer, FALSE,
                                                          BackendThrows)),
                               plan, configured)

\* the loop after the awaited classifier call of lead run.i has settled
resumeLoop(run, backend, plan) ==
  LET lead == run.currentLeads.data[run.i]
      aiScore == IF faultAt(plan, run.i) = "classifier" THEN Thrown
                 ELSE scoreLeadWithAI(lead, run.currentOffer, TRUE, backend)
  IN IF aiScore = Thrown
     THEN runLoop(pushErrored(run, lead, faultMessage("classifier")), plan, TRUE)
     ELSE runLoop(pushScored(run, lead, run.ruleScore, aiScore), plan, TRUE)

(* -------------------------- routes/leads.js ---------------------------- *)
(* A parsed CSV row is a record whose fields are the columns the row has   *)
(* (csv-parser leaves out the key of a cell the row lacks).                *)

\* (row.f || '').toString().trim() for the six fields
leadOfRow(row) ==
  [f \in Range(requiredFields) |-> IF Truthy(Get(row, f)) THEN trim(Get(row, f)) ELSE <<>>]

\* the 'data' handler over the rows of the file: the leads array at 'end'
parsedLeads(rows) ==
  [k \in DOMAIN rows |->
     leadOfRow(rows[k]) @@
     [lineNumber |-> k + 1, isValid |-> validateLeadData(leadOfRow(rows[k])).isValid]]

\* the errors array at 'end': one entry for each row whose lead fails validation
parsedErrors(rows) ==
  LET bad == SelectSeq([k \in DOMAIN rows |-> k],
                       LAMBDA k : ~validateLeadData(leadOfRow(rows[k])).isValid)
  IN [j \in DOMAIN bad |->
        [line |-> bad[j] + 1,
         lead |-> IF Truthy(leadOfRow(rows[bad[j]]).name)
                  THEN leadOfRow(rows[bad[j]]).name
                  ELSE <<"Line ", ToString(bad[j] + 1)>>,
         errors |-> validateLeadData(leadOfRow(rows[bad[j]])).errors]]

(* -------------------------- routes/offer.js ---------------------------- *)

\* the express-validator chain of POST /offer
offerPayloadValid(payload) ==
  /\ "name" \in DOMAIN payload /\ Truthy(payload.name)
  /\ \A f \in {"value_props", "ideal_use_cases"} :
       f \in DOMAIN payload =>
         \A j \in DOMAIN payload[f] : Len(trim(payload[f][j])) > 0

\* the offerData the route hands to setOffer
offerDataOf(payload) ==
  [name |-> trim(payload.name),
   value_props |-> IF "value_props" \in DOMAIN payload THEN payload.value_props ELSE <<>>,
   ideal_use_cases |-> IF "ideal_use_cases" \in DOMAIN payload THEN payload.ideal_use_cases
                       ELSE <<>>]

(* ----------------------- inputs of the requests ------------------------ *)

Row_CEO_SaaS ==
  [name |-> <<" ", "Y", " ">>, role |-> <<"C","E","O">>, company |-> <<"X">>,
   industry |-> <<"S","a","a","S">>, location |-> <<"Z">>, linkedin_bio |-> <<"W">>]

Row_Junior_Agriculture ==
  [name |-> <<"J">>, role |-> <<"J","u","n","i","o","r"," ","D","e","v","e","l","o","p","e","r">>, company |-> <<"X">>,
   industry |-> <<"A","g","r","i","c","u","l","t","u","r","e">>, location |-> <<"Z">>, linkedin_bio |-> <<"W">>]

\* a row that has no linkedin_bio cell
Row_Senior_Agriculture ==
  [name |-> <<"S">>, role |-> <<"S","e","n","i","o","r"," ","D","e","v","e","l","o","p","e","r">>, company |-> <<"X">>,
   industry |-> <<"A","g","r","i","c","u","l","t","u","r","e">>, location |-> <<"Z">>]

\* the uploaded CSV files, as the rows csv-parser emits for them
CsvFiles ==
  { <<>>,
    <<Row_CEO_SaaS>>,
    <<Row_Junior_Agriculture, Row_Senior_Agriculture>> }

\* the bodies of POST /offer: a valid offer and one without a name
OfferPayloads ==
  { [name |-> <<"Farm Suite", " ">>, ideal_use_cases |-> << <<"A","g","r","i">> >>],
    [value_props |-> << <<"6x more meetings">> >>] }

\* what the Gemini call of a configured scorer does for one lead
ApiBackends ==
  { BackendText(<<"I","n","t","e","n","t",":"," ","H","i","g","h">> \o <<"\n">> \o <<"R","e","a","s","o","n","i","n","g",":"," ">> \o <<"Strong fit">>) }

(* ---------------- inputs of a single scoring run ----------------------- *)

Row_Blank ==
  [name |-> <<>>, role |-> <<" ">>, company |-> <<>>, industry |-> <<>>,
   location |-> <<>>, linkedin_bio |-> <<>>]

Row_Senior_Complete == Row_Senior_Agriculture @@ [linkedin_bio |-> <<"W">>]

PipelineRows == {Row_CEO_SaaS, Row_Junior_Agriculture, Row_Senior_Complete, Row_Blank}

\* the rows of the CSV file whose leads a single run scores
MaxLeads == 2

PipelineFiles == UNION {[1..n -> PipelineRows] : n \in 1..MaxLeads}

PipelineOfferPayloads ==
  { [name |-> <<"Farm Suite", " ">>, ideal_use_cases |-> << <<"A","g","r","i">> >>],
    [name |-> <<"AI Outreach Automation">>,
     value_props |-> << <<"24/7 outreach">>, <<"6x more meetings">> >>,
     ideal_use_cases |-> << <<"B","2","B"," ","S","a","a","S"," ","m","i","d","-","m","a","r","k","e","t">> >>],
    [name |-> <<"AI Outreach Automation">>,
     value_props |-> << <<"24/7 outreach">> >>,
     ideal_use_cases |-> << <<"B","2","B"," ","S","a","a","S">> >>] }

PipelineBackends ==
  { BackendThrows,
    BackendText(<<>>),
    BackendText(<<"H","e","l","l","o">>),
    BackendText(<<"I","n","t","e","n","t",":"," ","H","i","g","h">> \o <<"\n">> \o <<"R","e","a","s","o","n","i","n","g",":"," ">> \o <<"Strong fit">>) }

(* ------------------ inputs of the unit calls --------------------------- *)

\* role arguments of calculateRoleScore, besides every keyword itself
UnitRoles ==
  { Null,
    Undefined,
    <<>>,
    <<"C","E","O">>,
    <<"c","e","o">>,
    <<"C","T","O">>,
    <<"D","I","R","E","C","T","O","R">>,
    <<"D","i","r","e","c","t","o","r"," ","o","f"," ","S","a","l","e","s">>,
    <<"V","P"," ","M","a","r","k","e","t","i","n","g">>,
    <<"H","e","a","d"," ","o","f"," ","G","r","o","w","t","h">>,
    <<"S","e","n","i","o","r"," ","D","e","v","e","l","o","p","e","r">>,
    <<"S","e","n","i","o","r"," ","d","e","v","e","l","o","p","e","r">>,
    <<"P","r","i","n","c","i","p","a","l"," ","E","n","g","i","n","e","e","r">>,
    <<"T","e","a","m"," ","L","e","a","d">>,
    <<"P","r","o","d","u","c","t"," ","M","a","n","a","g","e","r">>,
    <<"P","r","o","j","e","c","t"," ","M","a","n","a","g","e","r">>,
    <<"J","u","n","i","o","r"," ","D","e","v","e","l","o","p","e","r">>,
    <<"I","n","t","e","r","n">>,
    <<"A","s","s","i","s","t","a","n","t">>,
    <<"S","o","l","u","t","i","o","n","s"," ","A","r","c","h","i","t","e","c","t">>,
    <<"D","a","t","a"," ","A","n","a","l","y","s","t">>,
    <<"H","e","a","d","m","a","s","t","e","r">>,
    <<"p","r","e","s",DotlessI,"d","e","n","t">>,
    <<"x">>,
    <<" ">> }

\* industry arguments of calculateIndustryScore, besides every keyword itself
UnitIndustries ==
  { Null,
    Undefined,
    <<>>,
    <<"S","a","a","S">>,
    <<"S","o","f","t","w","a","r","e">>,
    <<"s","o","f","t","w","a","r","e"," ","d","e","v","e","l","o","p","m","e","n","t">>,
    <<"B","2","B"," ","S","a","a","S"," ","m","i","d","-","m","a","r","k","e","t">>,
    <<"T","e","c","h","n","o","l","o","g","y">>,
    <<"F","i","n","T","e","c","h">>,
    <<"F","i","n","a","n","c","e">>,
    <<"H","e","a","l","t","h","c","a","r","e">>,
    <<"H","e","a","l","t","h","c","a","r","e"," ","T","e","c","h">>,
    <<"R","e","t","a","i","l">>,
    <<"E","-","c","o","m","m","e","r","c","e"," ","p","l","a","t","f","o","r","m">>,
    <<"A","g","r","i","c","u","l","t","u","r","e">>,
    <<"M","i","n","i","n","g">>,
    <<"E","d","u","c","a","t","i","o","n">>,
    <<" ">> }

\* offers: none, one without ideal_use_cases, and three with a list of use cases
UnitOffers ==
  { NullOffer,
    [name |-> <<"Offer">>, value_props |-> <<>>],
    [name |-> <<"Offer">>, value_props |-> <<>>, ideal_use_cases |-> <<>>],
    [name |-> <<"AI Outreach Automation">>, value_props |-> << <<"24/7 outreach">> >>,
     ideal_use_cases |-> << <<"B","2","B"," ","S","a","a","S"," ","m","i","d","-","m","a","r","k","e","t">> >>],
    [name |-> <<"Offer">>, value_props |-> <<>>,
     ideal_use_cases |-> << <<"B","2","B"," ","S","a","a","S">>, <<"A","g","r","i">> >>] }

\* leads as objects: each field a string (also empty or blank) or undefined
UnitLeads ==
  [name : {<<>>, <<"Y">>, <<" ">>},
   role : {Undefined, <<>>, <<"C","E","O">>, <<"T","e","a","m"," ","L","e","a","d">>, <<"S","e","n","i","o","r"," ","D","e","v","e","l","o","p","e","r">>, <<"J","u","n","i","o","r"," ","D","e","v","e","l","o","p","e","r">>},
   company : {<<>>, <<"X">>},
   industry : {Undefined, <<>>, <<"S","a","a","S">>, <<"F","i","n","a","n","c","e">>, <<"A","g","r","i","c","u","l","t","u","r","e">>, <<"H","e","a","l","t","h","c","a","r","e"," ","T","e","c","h">>},
   location : {<<>>, <<"Z">>},
   linkedin_bio : {<<>>, <<"W">>}]

\* leads of the calculateCompletenessScore calls: those of UnitLeads, and leads
\* with a field that holds a value that is no string
UnitCompletenessLeads ==
  UnitLeads
  \cup {[name |-> <<"Y">>, role |-> <<"C","E","O">>, company |-> NotAString,
          industry |-> <<"S","a","a","S">>, location |-> <<"Z">>, linkedin_bio |-> <<"W">>],
         [name |-> Null, role |-> NotAString, company |-> <<"X">>,
          industry |-> <<"\t", "\n">>, location |-> <<"Z">>]}

\* a row whose industry cell is there and empty
Row_EmptyIndustry ==
  [name |-> <<"E">>, role |-> <<"C","T","O">>, company |-> <<"X">>, industry |-> <<>>,
   location |-> <<"Z">>, linkedin_bio |-> <<"W">>]

\* the files of the upload calls: up to MaxLeads rows, complete ones, rows with
\* an empty cell and rows that lack a cell
UnitCsvFiles ==
  UNION {[1..n -> {Row_CEO_SaaS, Row_Senior_Agriculture, Row_EmptyIndustry, Row_Blank}] :
           n \in 0..MaxLeads}

\* the objects of the validateLeadData calls: any of the six keys, each with an
\* empty string, a string or null ({} included)
UnitValidationLeads ==
  UNION {[keys -> {<<>>, <<"v">>, Null}] : keys \in SUBSET Range(requiredFields)}

\* scores of the records the summary is computed from: an errored lead (0), and
\* final scores of the three intents
UnitScores == {0, 20, 50, 85}

\* what calculateSummaryStats reads of a record: its intent and its score
UnitScoredLeads == {[intent |-> finalIntentOf(score), score |-> score] : score \in UnitScores}

MaxBatch == 6

\* the batches of the calculateSummaryStats calls, the empty one included
UnitBatches == UNION {[1..n -> UnitScoredLeads] : n \in 0..MaxBatch}

\* a line of a model response, written as the text it is made of:
\* indent \o prefix \o gap \o body
LineSpecs ==
  { [indent |-> <<>>, prefix |-> <<"I","n","t","e","n","t",":">>, gap |-> <<" ">>, body |-> <<"H","i","g","h">>],
    [indent |-> <<>>, prefix |-> <<"i","n","t","e","n","t",":">>, gap |-> <<>>, body |-> <<"l","o","w">>],
    [indent |-> <<>>, prefix |-> <<"I","N","T","E","N","T",":">>, gap |-> <<" "," ">>, body |-> <<"M","E","D","I","U","M">>],
    [indent |-> <<>>, prefix |-> <<"I","n","t","e","n","t",":">>, gap |-> <<" ">>, body |-> <<"L","o","w",".">>],
    [indent |-> <<>>, prefix |-> <<"I","n","t","e","n","t",":">>, gap |-> <<" ">>, body |-> <<"b","a","n","a","n","a">>],
    [indent |-> <<>>, prefix |-> <<"I","n","t","e","n","t",":">>, gap |-> <<" ">>, body |-> <<"[","H","i","g","h","]">>],
    [indent |-> <<" ">>, prefix |-> <<"I","n","t","e","n","t",":">>, gap |-> <<" ">>, body |-> <<"L","o","w">>],
    [indent |-> <<>>, prefix |-> <<"M","y"," ","i","n","t","e","n","t",":">>, gap |-> <<" ">>, body |-> <<"H","i","g","h">>],
    [indent |-> <<>>, prefix |-> <<"R","e","a","s","o","n","i","n","g",":">>, gap |-> <<" ">>, body |-> <<"Strong fit">>],
    [indent |-> <<>>, prefix |-> <<"R","E","A","S","O","N","I","N","G",":">>, gap |-> <<>>, body |-> <<" ", "Weak", " ", "fit", " ">>],
    [indent |-> <<>>, prefix |-> <<"R","e","a","s","o","n","i","n","g",":">>, gap |-> <<" ">>, body |-> GenericReasoning],
    [indent |-> <<>>, prefix |-> <<"R","e","a","s","o","n","i","n","g",":">>, gap |-> <<>>, body |-> <<>>],
    [indent |-> <<>>, prefix |-> <<>>, gap |-> <<>>, body |-> <<"Hello">>] }

renderLine(l) == l.indent \o l.prefix \o l.gap \o l.body

RECURSIVE joinLines(_, _)
\* the lines from index i on, joined by line feeds
joinLines(ls, i) ==
  IF i > Len(ls) THEN <<>>
  ELSE IF i = Len(ls) THEN renderLine(ls[i])
  ELSE renderLine(ls[i]) \o <<"\n">> \o joinLines(ls, i + 1)

\* the number of lines of a generated model response
MaxRespLines == 2

\* a model response: white space around lines of which the first is not indented
\* and the last does not end in white space, so that trim() removes the padding only
ResponseSpecs ==
  { r \in [pad : {<<>>, <<" ", "\n">>}, lines : UNION {[1..n -> LineSpecs] : n \in 0..MaxRespLines}] :
      Len(r.lines) > 0 =>
        /\ r.lines[1].indent = <<>>
        /\ renderLine(r.lines[Len(r.lines)]) # <<>>
        /\ renderLine(r.lines[Len(r.lines)])[Len(renderLine(r.lines[Len(r.lines)]))] \notin WhiteSpace }

renderResponse(r) == r.pad \o joinLines(r.lines, 1) \o r.pad

\* what result.response.text() can be besides a generated response
OddResponses == {Null, Undefined, <<>>, NotAString}

\* backends of the scoreLeadWithAI calls
UnitBackends ==
  {BackendThrows} \cup {BackendText(x) : x \in OddResponses}
    \cup {BackendText(renderResponse(r)) :
            r \in {s \in ResponseSpecs : Len(s.lines) <= 1 /\ s.pad = <<>>}}

\* leads of the classifier calls
UnitClassifierLeads ==
  {NullLead} \cup {l \in UnitLeads : /\ l.company = <<"X">>
                                     /\ l.location = <<"Z">>
                                     /\ l.linkedin_bio = <<"W">>}

\* offers of the classifier calls (the classifier reads the offer for its prompt only)
UnitClassifierOffers == {o \in UnitOffers : o = NullOffer \/ "ideal_use_cases" \notin DOMAIN o}

(* --------------------------- unit calls -------------------------------- *)
(* A unit call is drawn with its arguments by InitUnit; the action of its  *)
(* function applies the function and records the result as call.out.       *)

NoCall == [fn |-> "none"]

UnitCalls ==
  {[fn |-> "calculateRoleScore", role |-> role] :
     role \in UnitRoles \cup Range(DECISION_MAKER_ROLES) \cup Range(INFLUENCER_ROLES)}
  \cup {[fn |-> "calculateIndustryScore", industry |-> industry, offer |-> offer] :
          industry \in UnitIndustries \cup Range(ICP_INDUSTRIES) \cup Range(ADJACENT_INDUSTRIES),
          offer \in UnitOffers}
  \cup {[fn |-> "calculateRuleScore", lead |-> lead, offer |-> offer] :
          lead \in UnitLeads, offer \in UnitOffers}
  \cup {[fn |-> "calculateCompletenessScore", lead |-> lead] : lead \in UnitCompletenessLeads}
  \cup {[fn |-> "calculateSummaryStats", scoredLeads |-> batch] : batch \in UnitBatches}
  \cup {[fn |-> "validateLeadData", lead |-> lead] : lead \in UnitValidationLeads}
  \cup {[fn |-> "uploadLeads", rows |-> rows] : rows \in UnitCsvFiles}
  \cup {[fn |-> "getFallbackScore", lead |-> lead, offer |-> offer] :
          lead \in UnitLeads \cup {NullLead}, offer \in UnitClassifierOffers}
  \cup {[fn |-> "parseAIResponse", spec |-> r, aiResponse |-> renderResponse(r)] :
          r \in ResponseSpecs}
  \cup {[fn |-> "parseAIResponse", spec |-> [pad |-> <<>>, lines |-> <<>>], aiResponse |-> x] :
          x \in OddResponses}
  \cup {[fn |-> "scoreLeadWithAI", lead |-> lead, offer |-> offer,
         isConfigured |-> configured, backend |-> backend] :
          lead \in UnitClassifierLeads, offer \in UnitClassifierOffers, configured \in BOOLEAN,
          backend \in UnitBackends}

Pending(fn) == call.fn = fn /\ "out" \notin DOMAIN call

Returned(fn) == call.fn = fn /\ "out" \in DOMAIN call

Return(result) ==
  /\ call' = call @@ [out |-> result]
  /\ UNCHANGED <<offers, leads, results, currentOfferId, currentLeadsId, now, isConfigured, faults,
                 runs, res>>

CallRoleScore ==
  Pending("calculateRoleScore") /\ Return(calculateRoleScore(call.role))

CallIndustryScore ==
  Pending("calculateIndustryScore") /\ Return(calculateIndustryScore(call.industry, call.offer))

CallRuleScore ==
  Pending("calculateRuleScore") /\ Return(calculateRuleScore(call.lead, call.offer))

CallCompletenessScore ==
  Pending("calculateCompletenessScore") /\ Return(calculateCompletenessScore(call.lead))

CallValidateLeadData ==
  Pending("validateLeadData") /\ Return(validateLeadData(call.lead))

CallSummaryStats ==
  Pending("calculateSummaryStats") /\ Return(calculateSummaryStats(call.scoredLeads))

CallFallbackScore ==
  Pending("getFallbackScore") /\ Return(getFallbackScore(call.lead, call.offer))

CallParseAIResponse ==
  Pending("parseAIResponse") /\ Return(parseAIResponse(call.aiResponse))

CallScoreLeadWithAI ==
  /\ Pending("scoreLeadWithAI")
  /\ Return(scoreLeadWithAI(call.lead, call.offer, call.isConfigured, call.backend))

(* --------------------------- the requests ------------------------------ *)

\* the latest value of Date.now() the model follows the program to
MaxClock == 2

\* the POST /score requests that can be in progress at once
MaxRuns == 2

storeVars == <<offers, leads, results, currentOfferId, currentLeadsId>>

vars == <<call, offers, leads, results, currentOfferId, currentLeadsId, now, isConfigured, faults,
          runs, res>>

\* the second reading of the clock in one store operation: `now` or one millisecond on
Stamps == {t \in {now, now + 1} : t <= MaxClock}

NoResponse == [route |-> "none", status |-> 0]

\* time passes
Tick ==
  /\ now < MaxClock
  /\ now' = now + 1
  /\ UNCHANGED <<call, storeVars, isConfigured, faults, runs, res>>

\* POST /offer
PostOffer ==
  \E payload \in OfferPayloads, stamp \in {now} :
    IF ~offerPayloadValid(payload)
    THEN /\ res' = [route |-> "POST /offer", status |-> 400]
         /\ UNCHANGED <<call, storeVars, now, isConfigured, faults, runs>>
    ELSE LET offer == setOffer(offerDataOf(payload), now, stamp)
         IN /\ offers' = mapSet(offers, offer)
            /\ currentOfferId' = offer.id
            /\ now' = stamp
            /\ res' = [route |-> "POST /offer", status |-> 201, id |-> offer.id,
                       ready_for_scoring |-> currentLeadsId # NoId]
            /\ UNCHANGED <<call, leads, results, currentLeadsId, isConfigured, faults, runs>>

\* DELETE /offer
DeleteOffer ==
  /\ offers' = <<>>
  /\ currentOfferId' = NoId
  /\ res' = [route |-> "DELETE /offer", status |-> 200]
  /\ UNCHANGED <<call, leads, results, currentLeadsId, now, isConfigured, faults, runs>>

\* the 201 response of POST /leads/upload
uploadResponse(leadsData, errors, ready) ==
  [route |-> "POST /leads/upload", status |-> 201,
   id |-> leadsData.id,
   total_leads |-> Len(leadsData.data),
   valid_leads |-> Len(SelectSeq(leadsData.data, LAMBDA l : l.isValid)),
   invalid_leads |-> Len(SelectSeq(leadsData.data, LAMBDA l : ~l.isValid)),
   errors_count |-> Len(errors),
   errors |-> SubSeq(errors, 1, Min(Len(errors), 10)),
   ready_for_scoring |-> ready]

\* variant: the collection is stored whether or not it holds a lead
UploadLeads_StoresEmpty ==
  \E rows \in CsvFiles, stamp \in {now} :
    LET leadsData == setLeads(parsedLeads(rows), now, stamp)
    IN /\ leads' = mapSet(leads, leadsData)
       /\ currentLeadsId' = leadsData.id
       /\ now' = stamp
       /\ res' = uploadResponse(leadsData, parsedErrors(rows), currentOfferId # NoId)
       /\ UNCHANGED <<call, offers, results, currentOfferId, isConfigured, faults, runs>>

\* POST /leads/upload with a file, at the 'end' event of the parser
UploadLeads ==
  \E rows \in CsvFiles, stamp \in {now} :
    LET parsed == parsedLeads(rows)
        errors == parsedErrors(rows)
    IN IF Len(parsed) = 0
       THEN /\ res' = [route |-> "POST /leads/upload", status |-> 400]
            /\ UNCHANGED <<call, storeVars, now, isConfigured, faults, runs>>
       ELSE LET leadsData == setLeads(parsed, now, stamp)
            IN /\ leads' = mapSet(leads, leadsData)
               /\ currentLeadsId' = leadsData.id
               /\ now' = stamp
               /\ res' = uploadResponse(leadsData, errors, currentOfferId # NoId)
               /\ UNCHANGED <<call, offers, results, currentOfferId, isConfigured, faults, runs>>

\* POST /leads/upload without a file, or with a file the parser fails on
UploadRejected ==
  /\ res' = [route |-> "POST /leads/upload", status |-> 400]
  /\ UNCHANGED <<call, storeVars, now, isConfigured, faults, runs>>

\* variant: DELETE /leads clears the whole store (clearAll)
DeleteLeads_ClearsAll ==
  /\ leads' = <<>>
  /\ currentLeadsId' = NoId
  /\ offers' = <<>>
  /\ currentOfferId' = NoId
  /\ results' = <<>>
  /\ res' = [route |-> "DELETE /leads", status |-> 200]
  /\ UNCHANGED <<call, now, isConfigured, faults, runs>>

\* DELETE /leads
DeleteLeads ==
  /\ leads' = <<>>
  /\ currentLeadsId' = NoId
  /\ res' = [route |-> "DELETE /leads", status |-> 200]
  /\ UNCHANGED <<call, offers, results, currentOfferId, now, isConfigured, faults, runs>>

\* GET /results
GetResults ==
  LET latest == getLatestResults(results)
  IN /\ res' = IF latest = NoEntry
               THEN [route |-> "GET /results", status |-> 404]
               ELSE [route |-> "GET /results", status |-> 200, results_id |-> latest.id,
                     total_leads |-> latest.count, scored_at |-> latest.scoredAt]
     /\ UNCHANGED <<call, storeVars, now, isConfigured, faults, runs>>

\* the handler r of POST /score after its loop reached `run`: it stays suspended
\* at the await, or stores the results and responds
settle(r, run) ==
  IF run.pc = "await"
  THEN /\ runs' = [runs EXCEPT ![r] = run]
       /\ UNCHANGED <<call, storeVars, now, isConfigured, faults, res>>
  ELSE \E stamp \in Stamps :
         LET stored == setResults(run.scoredLeads, currentOfferId, currentLeadsId, now, stamp)
         IN /\ results' = mapSet(results, stored)
            /\ now' = stamp
            /\ runs' = [runs EXCEPT ![r] = IdleRun]
            /\ res' = [route |-> "POST /score", status |-> 200,
                       results_id |-> stored.id,
                       total_leads |-> Len(run.scoredLeads),
                       scored_at |-> stored.scoredAt,
                       errors_count |-> Len(run.errors)]
            /\ UNCHANGED <<call, offers, leads, currentOfferId, currentLeadsId, isConfigured, faults>>

\* variant: a request that finds no offer or no leads answers 400 and stores an
\* empty result set
PostScore_StoresOnFailure(r) ==
  /\ runs[r].pc = "idle"
  /\ \A q \in 1..(r - 1) : runs[q].pc # "idle"
  /\ LET currentOffer == getCurrent(offers, currentOfferId)
         currentLeads == getCurrent(leads, currentLeadsId)
     IN IF currentOffer = NoEntry \/ currentLeads = NoEntry
        THEN /\ res' = [route |-> "POST /score", status |-> 400,
                        error |-> IF currentOffer = NoEntry THEN "No offer data available"
                                  ELSE "No leads data available"]
             /\ results' = mapSet(results, setResults(<<>>, currentOfferId, currentLeadsId,
                                                      now, now))
             /\ UNCHANGED <<call, offers, leads, currentOfferId, currentLeadsId, now,
                            isConfigured, faults, runs>>
        ELSE settle(r, runLoop(startedRun(currentOffer, currentLeads), faults, isConfigured))

\* POST /score, from the request up to its first suspension; the handler takes
\* the first free slot
PostScore(r) ==
  /\ runs[r].pc = "idle"
  /\ \A q \in 1..(r - 1) : runs[q].pc # "idle"
  /\ LET currentOffer == getCurrent(offers, currentOfferId)
         currentLeads == getCurrent(leads, currentLeadsId)
     IN IF currentOffer = NoEntry \/ currentLeads = NoEntry
        THEN /\ res' = [route |-> "POST /score", status |-> 400,
                        error |-> IF currentOffer = NoEntry THEN "No offer data available"
                                  ELSE "No leads data available"]
             /\ UNCHANGED <<call, storeVars, now, isConfigured, faults, runs>>
        ELSE settle(r, runLoop(startedRun(currentOffer, currentLeads), faults, isConfigured))

\* the classifier call the handler r awaits settles, and the loop goes on
ClassifierSettles(r, backends) ==
  /\ runs[r].pc = "await"
  /\ \E backend \in backends :
       settle(r, resumeLoop(runs[r], backend, faults))

\* no sub-scorer call throws
NoFaults == <<>>

InitStore ==
  /\ offers = <<>>
  /\ leads = <<>>
  /\ results = <<>>
  /\ currentOfferId = NoId
  /\ currentLeadsId = NoId
  /\ now = 1
  /\ runs = [r \in 1..MaxRuns |-> IdleRun]
  /\ res = NoResponse

Init ==
  /\ InitStore
  /\ isConfigured \in BOOLEAN
  /\ faults = NoFaults
  /\ call = NoCall

Next ==
  \/ Tick
  \/ PostOffer
  \/ DeleteOffer
  \/ UploadLeads
  \/ UploadRejected
  \/ DeleteLeads
  \/ GetResults
  \/ PostScore(1)
  \/ ClassifierSettles(1, ApiBackends)

\* the requests of every route, with one POST /score in progress at a time
Spec == Init /\ [][Next]_vars

\* POST /score requests in progress at once: an offer is stored, leads are
\* uploaded, and up to MaxRuns handlers score them
InitOverlap ==
  /\ call = NoCall
  /\ isConfigured \in BOOLEAN
  /\ faults = NoFaults
  /\ \E payload \in {p \in OfferPayloads : offerPayloadValid(p)} :
       offers = <<setOffer(offerDataOf(payload), 1, 1)>>
  /\ currentOfferId = 1
  /\ leads = <<>>
  /\ currentLeadsId = NoId
  /\ results = <<>>
  /\ now = 1
  /\ runs = [r \in 1..MaxRuns |-> IdleRun]
  /\ res = [route |-> "POST /offer", status |-> 201, id |-> 1, ready_for_scoring |-> FALSE]

NextOverlap ==
  \/ Tick
  \/ UploadLeads
  \/ \E r \in 1..MaxRuns : PostScore(r)
  \/ \E r \in 1..MaxRuns : ClassifierSettles(r, ApiBackends)

SpecOverlap == InitOverlap /\ [][NextOverlap]_vars

\* A single scoring run: the store holds one offer and one leads collection,
\* uploaded in the first millisecond, and POST /score is served once.
InitPipeline ==
  /\ call = NoCall
  /\ isConfigured \in BOOLEAN
  /\ \E payload \in PipelineOfferPayloads, rows \in PipelineFiles :
       /\ offers = <<setOffer(offerDataOf(payload), 1, 1)>>
       /\ leads = <<setLeads(parsedLeads(rows), 1, 1)>>
       /\ res = uploadResponse(setLeads(parsedLeads(rows), 1, 1), parsedErrors(rows), TRUE)
       /\ faults \in [DOMAIN rows -> Faults]
  /\ results = <<>>
  /\ currentOfferId = 1
  /\ currentLeadsId = 1
  /\ now = 1
  /\ runs = [r \in 1..MaxRuns |-> IdleRun]

ScoreOnce == Len(results) = 0 /\ PostScore(1)

NextPipeline ==
  \/ ScoreOnce
  \/ ClassifierSettles(1, PipelineBackends)

SpecPipeline == InitPipeline /\ [][NextPipeline]_vars

\* the 'data' and 'end' handlers of POST /leads/upload over the rows of a file:
\* the collection it stores and the response it sends
CallUploadLeads ==
  /\ Pending("uploadLeads")
  /\ LET parsed == parsedLeads(call.rows)
         errors == parsedErrors(call.rows)
     IN IF Len(parsed) = 0
        THEN Return([status |-> 400])
        ELSE Return([status |-> 201,
                     stored |-> setLeads(parsed, now, now),
                     response |-> uploadResponse(setLeads(parsed, now, now), errors,
                                                 currentOfferId # NoId)])

InitUnit ==
  /\ InitStore
  /\ isConfigured = FALSE
  /\ faults = NoFaults
  /\ call \in UnitCalls

NextUnit ==
  \/ CallRoleScore
  \/ CallIndustryScore
  \/ CallRuleScore
  \/ CallCompletenessScore
  \/ CallSummaryStats
  \/ CallValidateLeadData
  \/ CallUploadLeads
  \/ CallFallbackScore
  \/ CallParseAIResponse
  \/ CallScoreLeadWithAI

SpecUnit == InitUnit /\ [][NextUnit]_vars

(* ------------------------------ claims --------------------------------- *)

\* C1: for every lead and offer, the breakdown calculateRuleScore returns has
\* total = roleScore + industryScore + completenessScore, 0 <= total <= 50,
\* roleScore and industryScore in {0, 10, 20} and completenessScore in 0..10.
C1_RuleTotalIsSum ==
  Returned("calculateRuleScore") =>
    LET b == call.out
    IN /\ b.total = b.roleScore + b.industryScore + b.completenessScore
       /\ 0 <= b.total /\ b.total <= 50
       /\ b.roleScore \in {0, 10, 20}
       /\ b.industryScore \in {0, 10, 20}
       /\ b.completenessScore \in 0..10

\* a breakdown that reaches the maximum of every sub-score
C1_Witness ==
  /\ Returned("calculateRuleScore")
  /\ call.out.roleScore = 20 /\ call.out.industryScore = 20
  /\ call.out.completenessScore = 10 /\ call.out.total = 50

\* the records of every output: the stored result sets, and the scoredLeads of
\* the runs in progress
OutputRecords ==
  UNION ({Range(results[k].data) : k \in DOMAIN results}
         \cup {Range(runs[r].scoredLeads) : r \in {q \in DOMAIN runs : runs[q].pc # "idle"}})

\* C2: every record a scoring run puts in its output has
\* score = min(rule_score + ai_score, 100) for the rule_score and ai_score of its
\* breakdown, and 0 <= score <= 100.
C2_ScoreIsCappedSum ==
  \A rec \in OutputRecords :
    /\ rec.score = Min(rec.breakdown.rule_score + rec.breakdown.ai_score, 100)
    /\ rec.breakdown.final_score = rec.score
    /\ 0 <= rec.score /\ rec.score <= 100

\* a stored result set holds a record that reaches 100 = 50 + 50 and a record
\* of a smaller sum of two positive parts
C2_Witness ==
  \E k \in DOMAIN results :
    /\ \E rec \in Range(results[k].data) :
         rec.breakdown.rule_score = 50 /\ rec.breakdown.ai_score = 50 /\ rec.score = 100
    /\ \E rec \in Range(results[k].data) :
         rec.breakdown.rule_score > 0 /\ rec.breakdown.ai_score > 0 /\ rec.score < 100

\* C3: in every record of the output of a scoring run the intent is High iff
\* score >= 70, Medium iff 40 <= score < 70 and Low otherwise; the thresholds
\* decide it at every score 0..100 (39, 40, 69 and 70 included), whatever label
\* the classifier returned.
C3_IntentFromScoreOnly ==
  /\ \A rec \in OutputRecords :
       /\ rec.intent = High <=> rec.score >= 70
       /\ rec.intent = Medium <=> (40 <= rec.score /\ rec.score < 70)
       /\ rec.intent = Low <=> rec.score < 40
  /\ \A score \in 0..100 :
       finalIntentOf(score) = IF score >= 70 THEN High
                              ELSE IF score >= 40 THEN Medium
                              ELSE Low

\* a stored result set holds a record at 70 that is High though its classifier
\* points are not those of High, and a record at 40 that is Medium though its
\* classifier points are those of Low
C3_Witness ==
  \E k \in DOMAIN results :
    /\ \E rec \in Range(results[k].data) :
         rec.score = 70 /\ rec.intent = High /\ rec.breakdown.ai_score = 30
    /\ \E rec \in Range(results[k].data) :
         rec.score = 40 /\ rec.intent = Medium /\ rec.breakdown.ai_score = 10

IsIntentResult(r) ==
  /\ r # Thrown
  /\ DOMAIN r = {"intent", "reasoning", "aiPoints", "source"}
  /\ r.intent \in {High, Medium, Low}
  /\ r.aiPoints \in {10, 30, 50}
  /\ r.source \in {"gemini", "fallback"}

\* C4: scoreLeadWithAI never raises to its caller: for every lead (a null lead
\* included) and every behaviour of the backend (not configured, the call throws,
\* an empty, non-string or free-form response) it returns an IntentResult, and
\* the result has source = fallback when the backend is unconfigured or throws.
C4_ClassifierNeverRaises ==
  Returned("scoreLeadWithAI") =>
    /\ IsIntentResult(call.out)
    /\ (~call.isConfigured \/ call.backend = BackendThrows) => call.out.source = "fallback"

\* a configured scorer is handed a null lead and its backend call throws
C4_Witness ==
  /\ Returned("scoreLeadWithAI")
  /\ call.lead = NullLead /\ call.isConfigured /\ call.backend = BackendThrows
  /\ call.out.source = "fallback"

\* the three booleans of the fallback heuristic, as the specification words them
\* the record of a lead whose scoring threw
IsErrorRecord(rec) ==
  /\ rec.score = 0
  /\ rec.intent = Low
  /\ rec.breakdown = [rule_score |-> 0, ai_score |-> 0, final_score |-> 0]
  /\ "error" \in DOMAIN rec.details
  /\ rec.details.error = TRUE

\* the record at position k of an output made from the leads `data`: it copies
\* the fields of lead k, and it is an error record exactly when a sub-scorer call
\* of lead k threw
IsolatedRecord(rec, data, k) ==
  /\ \A f \in Range(requiredFields) : Get(rec, f) = Get(data[k], f)
  /\ faultAt(faults, k) # "none" => IsErrorRecord(rec)
  /\ faultAt(faults, k) = "none" => "error" \notin DOMAIN rec.details /\ rec.score > 0

\* C5: if scoring a lead throws inside the rule engine or the classifier, the
\* run does not abort: it records for that lead a record with score 0, intent
\* Low and an error-flagged details block, goes on with the next lead, and
\* stores a result set with one record per lead of the collection.
C5_PerLeadIsolation ==
  LET data == leads[1].data
  IN /\ \A r \in DOMAIN runs :
          runs[r].pc # "idle" =>
            /\ runs[r].pc = "await"
            /\ runs[r].i <= Len(data)
            /\ Len(runs[r].scoredLeads) = runs[r].i - 1
            /\ \A k \in DOMAIN runs[r].scoredLeads :
                 IsolatedRecord(runs[r].scoredLeads[k], data, k)
     /\ \A n \in DOMAIN results :
          /\ results[n].count = Len(data)
          /\ Len(results[n].data) = Len(data)
          /\ \A k \in DOMAIN results[n].data : IsolatedRecord(results[n].data[k], data, k)
     /\ res.route = "POST /score" => res.status = 200 /\ Len(results) = 1

\* a stored result set whose first record is the error record of a lead whose
\* scoring threw and whose second record is a lead scored after it
C5_Witness ==
  \E k \in DOMAIN results :
    /\ results[k].count = 2
    /\ faults[1] # "none"
    /\ IsErrorRecord(results[k].data[1])
    /\ "error" \notin DOMAIN results[k].data[2].details
    /\ results[k].data[2].score > 0

RoleNamesDecisionMaker(lead) ==
  /\ Truthy(Get(lead, "role"))
  /\ \E k \in Range(FALLBACK_ROLE_TITLES) : includes(toLowerCase(Get(lead, "role")), k)

IndustryIsTech(lead) ==
  /\ Truthy(Get(lead, "industry"))
  /\ \E k \in Range(FALLBACK_TECH_KEYWORDS) : includes(toLowerCase(Get(lead, "industry")), k)

CoreFieldsPresent(lead) ==
  \A f \in {"name", "role", "company", "industry"} :
    /\ Truthy(Get(lead, f))
    /\ \E i \in DOMAIN Get(lead, f) : Get(lead, f)[i] \notin WhiteSpace

HeuristicIntent(lead) ==
  IF RoleNamesDecisionMaker(lead) /\ IndustryIsTech(lead) /\ CoreFieldsPresent(lead) THEN High
  ELSE IF RoleNamesDecisionMaker(lead) \/ IndustryIsTech(lead) THEN Medium
  ELSE Low

PointsOf(intent) == IF intent = High THEN 50 ELSE IF intent = Medium THEN 30 ELSE 10

\* C6: whenever scoreLeadWithAI takes the fallback path for a non-null lead,
\* whatever the trigger (no credential, the call throws, the response is empty or
\* cannot be parsed), its result is the three-boolean heuristic of that lead,
\* tagged source = fallback.
C6_FallbackIsHeuristicOfLead ==
  (Returned("scoreLeadWithAI") /\ call.lead # NullLead /\ call.out.source = "fallback") =>
    /\ call.out.intent = HeuristicIntent(call.lead)
    /\ call.out.aiPoints = PointsOf(HeuristicIntent(call.lead))

\* C7: getFallbackScore returns High/50 if a and b and c, else Medium/30 if a or
\* b, else Low/10 (a: the role contains a decision-maker keyword, b: the industry
\* contains a tech keyword, c: name, role, company and industry are non-empty
\* after trimming), always tagged fallback; a null lead gets Low/10.
C7_FallbackHeuristic ==
  Returned("getFallbackScore") =>
    /\ call.out.source = "fallback"
    /\ IF call.lead = NullLead
       THEN call.out.intent = Low /\ call.out.aiPoints = 10
       ELSE /\ call.out.intent = HeuristicIntent(call.lead)
            /\ call.out.aiPoints = PointsOf(call.out.intent)

\* a decision maker in a tech industry whose profile is incomplete gets Medium/30
C7_Witness ==
  /\ Returned("getFallbackScore")
  /\ call.lead # NullLead
  /\ RoleNamesDecisionMaker(call.lead) /\ IndustryIsTech(call.lead)
  /\ ~CoreFieldsPresent(call.lead)
  /\ call.out.intent = Medium /\ call.out.aiPoints = 30

\* the label a line of a response carries: the line starts with 'intent:' in any
\* case, and high, medium or low follows the optional white space; <<>> otherwise
LabelOfLine(l) ==
  IF l.indent = <<>> /\ toLowerCase(l.prefix) = S_intentColon
  THEN IF startsWith(toLowerCase(l.body), S_high) THEN High
       ELSE IF startsWith(toLowerCase(l.body), S_medium) THEN Medium
       ELSE IF startsWith(toLowerCase(l.body), S_low) THEN Low
       ELSE <<>>
  ELSE <<>>

IsReasoningLine(l) == l.indent = <<>> /\ toLowerCase(l.prefix) = S_reasoningColon

Last(S) == CHOOSE i \in S : \A j \in S : j <= i

ExpectedIntent(lines) ==
  LET labelled == {i \in DOMAIN lines : LabelOfLine(lines[i]) # <<>>}
  IN IF labelled = {} THEN Medium ELSE LabelOfLine(lines[Last(labelled)])

ExpectedReasoning(lines) ==
  LET given == {i \in DOMAIN lines : IsReasoningLine(lines[i])}
  IN IF given = {} THEN GenericReasoning ELSE trim(lines[Last(given)].body)

\* C8: for every non-empty model response, the intent parseAIResponse resolves
\* is the Title-Case label of the last 'intent:' line that carries one of high,
\* medium, low (prefix and label in any case), and Medium when no line does; the
\* points are 50/30/10 for High/Medium/Low; the reasoning is the trimmed
\* remainder of the last 'reasoning:' line, or the generic placeholder when there
\* is none; the source is the model.
C8_PrimaryPathParsing ==
  (Returned("parseAIResponse") /\ Truthy(call.aiResponse) /\ IsString(call.aiResponse)) =>
    /\ call.out.intent = ExpectedIntent(call.spec.lines)
    /\ call.out.aiPoints = PointsOf(call.out.intent)
    /\ call.out.aiPoints \in {10, 30, 50}
    /\ call.out.reasoning = ExpectedReasoning(call.spec.lines)
    /\ call.out.source = "gemini"

\* a padded two-line response 'REASONING: Weak fit ' + 'intent:low' parses to Low/10
C8_Witness ==
  /\ Returned("parseAIResponse")
  /\ Len(call.spec.lines) = 2 /\ call.spec.pad # <<>>
  /\ IsReasoningLine(call.spec.lines[1])
  /\ call.spec.lines[2].prefix = S_intentColon /\ call.spec.lines[2].body = S_low
  /\ call.out = [intent |-> Low, reasoning |-> <<"Weak", " ", "fit">>,
                 aiPoints |-> 10, source |-> "gemini"]

C11_RoleScoreCaseInsensitive ==
  (Returned("calculateRoleScore") /\ IsString(call.role)) =>
    /\ call.out = calculateRoleScore(toUpperCase(call.role))
    /\ call.out = calculateRoleScore(toLowerCase(call.role))

\* the same for the roles written in ASCII
C11_AsciiRoleScoreCaseInsensitive ==
  (Returned("calculateRoleScore") /\ IsString(call.role) /\ DotlessI \notin Range(call.role)) =>
    /\ call.out = calculateRoleScore(toUpperCase(call.role))
    /\ call.out = calculateRoleScore(toLowerCase(call.role))

\* the use cases of an offer, none for a null offer or one without the list
UseCasesOf(offer) ==
  IF offer # NullOffer /\ "ideal_use_cases" \in DOMAIN offer
  THEN Range(offer.ideal_use_cases) ELSE {}

\* C12: calculateIndustryScore is 0 for a missing or empty industry, else 20 if
\* the lower-cased industry contains a (lower-cased) entry of the offer's
\* ideal_use_cases, else 20 if it contains an ICP keyword, else 10 if it
\* contains an adjacent-industry keyword, else 0; an industry that matches an
\* ICP keyword and an adjacent keyword scores 20.
C12_IndustryScore ==
  Returned("calculateIndustryScore") =>
    LET low == toLowerCase(call.industry)
    IN call.out =
         IF call.industry \in {Null, Undefined, <<>>} THEN 0
         ELSE IF \E u \in UseCasesOf(call.offer) : includes(low, toLowerCase(u)) THEN 20
         ELSE IF \E k \in Range(ICP_INDUSTRIES) : includes(low, k) THEN 20
         ELSE IF \E k \in Range(ADJACENT_INDUSTRIES) : includes(low, k) THEN 10
         ELSE 0

\* an industry with an ICP keyword and an adjacent keyword, which no use case of
\* the offer matches, scores 20
C12_Witness ==
  /\ Returned("calculateIndustryScore")
  /\ Truthy(call.industry)
  /\ ~\E u \in UseCasesOf(call.offer) : includes(toLowerCase(call.industry), toLowerCase(u))
  /\ \E k \in Range(ICP_INDUSTRIES) : includes(toLowerCase(call.industry), k)
  /\ \E k \in Range(ADJACENT_INDUSTRIES) : includes(toLowerCase(call.industry), k)
  /\ call.out = 20

\* an industry that only a use case of the offer matches scores 20
C12_UseCaseReached ==
  /\ Returned("calculateIndustryScore")
  /\ \E u \in UseCasesOf(call.offer) : includes(toLowerCase(call.industry), toLowerCase(u))
  /\ ~\E k \in Range(ICP_INDUSTRIES) \cup Range(ADJACENT_INDUSTRIES) :
        includes(toLowerCase(call.industry), k)
  /\ call.out = 20

\* the number of the six fields of a lead that are strings with a character
\* that is no white space
PresentFields(lead) ==
  Cardinality({f \in Range(requiredFields) :
                 /\ f \in DOMAIN lead
                 /\ IsString(lead[f])
                 /\ \E i \in DOMAIN lead[f] : lead[f][i] \notin WhiteSpace})

\* C13: with p the number of the six fields that are non-empty strings after
\* trimming, calculateCompletenessScore returns 10 when p = 6 and
\* floor(p * 10 / 6) otherwise: 0, 1, 3, 5, 6, 8 for p = 0..5.
C13_CompletenessScore ==
  Returned("calculateCompletenessScore") =>
    LET present == PresentFields(call.lead)
    IN /\ call.out = <<0, 1, 3, 5, 6, 8, 10>>[present + 1]
       /\ present < 6 => call.out = (present * 10) \div 6

\* five of six fields are present, the sixth is blank: 8 points
C13_Witness ==
  /\ Returned("calculateCompletenessScore")
  /\ PresentFields(call.lead) = 5
  /\ call.lead.name = <<" ">>
  /\ call.out = 8

\* records is made of the records of the first Len(records) leads of data, in
\* the order of data
InInputOrder(records, data) ==
  /\ Len(records) <= Len(data)
  /\ \A k \in DOMAIN records : leadFields(records[k]) = leadFields(data[k])

IsPrefix(a, b) == Len(a) <= Len(b) /\ SubSeq(b, 1, Len(a)) = a

\* C14: a scoring run goes through the leads one at a time and in input order:
\* while the classifier call of lead i is awaited the records of leads 1..i-1,
\* and no others, have been appended; a step of the run only appends records
\* after those it has; the stored result set has one record per input lead, the
\* k-th record being that of the k-th lead.
C14_SequentialInInputOrder ==
  /\ [](/\ \A r \in DOMAIN runs :
             runs[r].pc # "idle" =>
               /\ runs[r].pc = "await"
               /\ runs[r].i \in 1..Len(runs[r].currentLeads.data)
               /\ Len(runs[r].scoredLeads) = runs[r].i - 1
               /\ InInputOrder(runs[r].scoredLeads, runs[r].currentLeads.data)
        /\ \A n \in DOMAIN results :
             /\ Len(results[n].data) = Len(leads[1].data)
             /\ InInputOrder(results[n].data, leads[1].data))
  /\ [][runs[1].pc = "await" =>
          IF runs'[1].pc = "await"
          THEN /\ runs'[1].i > runs[1].i
               /\ IsPrefix(runs[1].scoredLeads, runs'[1].scoredLeads)
          ELSE /\ Len(results') = Len(results) + 1
               /\ IsPrefix(runs[1].scoredLeads, results'[Len(results')].data)]_vars

\* a stored result set of two different leads, each record that of the lead at
\* its position
C14_Witness ==
  \E n \in DOMAIN results :
    /\ Len(results[n].data) = 2
    /\ leadFields(leads[1].data[1]) # leadFields(leads[1].data[2])
    /\ leadFields(results[n].data[1]) = leadFields(leads[1].data[1])
    /\ leadFields(results[n].data[2]) = leadFields(leads[1].data[2])
    /\ isConfigured

\* no current offer, or no current leads collection
PreconditionFails ==
  \/ getCurrent(offers, currentOfferId) = NoEntry
  \/ getCurrent(leads, currentLeadsId) = NoEntry

\* a POST /score request is answered by this step while no handler was in progress
ScoreRequestAnswered ==
  /\ \A r \in DOMAIN runs : runs[r].pc = "idle"
  /\ res' # res
  /\ res'.route = "POST /score"

\* C15: when no current offer or no current leads collection exists, POST /score
\* answers 400 at once, starts no scoring run and stores no result set: the
\* stored results, the rest of the store and the handlers are as before; and it
\* answers 400 in no other case.
C15_PreconditionFailure ==
  [][ /\ (ScoreRequestAnswered /\ PreconditionFails) =>
           /\ res'.status = 400
           /\ res'.error = IF getCurrent(offers, currentOfferId) = NoEntry
                           THEN "No offer data available" ELSE "No leads data available"
           /\ results' = results
           /\ runs' = runs
           /\ UNCHANGED <<offers, leads, currentOfferId, currentLeadsId, now>>
      /\ (ScoreRequestAnswered /\ res'.status = 400) => PreconditionFails
    ]_vars

\* POST /score was answered 400 for want of leads while a result set of an
\* earlier run is stored
C15_Witness ==
  /\ res.route = "POST /score" /\ res.status = 400
  /\ res.error = "No leads data available"
  /\ currentOfferId # NoId /\ currentLeadsId = NoId
  /\ Len(results) > 0

\* the fields of a summary that hold a number computed by arithmetic
StatFields == {"average", "maximum", "minimum"}

IntentKeys == {"high", "medium", "low"}

RECURSIVE TotalScore(_)
\* the sum of the scores of a batch
TotalScore(batch) ==
  IF batch = <<>> THEN 0
  ELSE TotalScore(SubSeq(batch, 1, Len(batch) - 1)) + batch[Len(batch)].score

\* C17: for a batch of n > 0 records, total_leads is n, the High, Medium and
\* Low counts are the numbers of records of each intent and add up to n,
\* maximum and minimum are the largest and the smallest score of the batch, and
\* average is an integer nearest to the mean of the scores (the upper one when
\* the mean is half-way), between minimum and maximum.
C17_SummaryStats ==
  (Returned("calculateSummaryStats") /\ call.scoredLeads # <<>>) =>
    LET batch == call.scoredLeads
        n == Len(batch)
        summary == call.out
        counts == summary.intent_distribution
        stats == summary.score_stats
    IN /\ summary.total_leads = n
       /\ counts.high + counts.medium + counts.low = n
       /\ counts.high = Cardinality({i \in 1..n : batch[i].intent = High})
       /\ counts.medium = Cardinality({i \in 1..n : batch[i].intent = Medium})
       /\ counts.low = Cardinality({i \in 1..n : batch[i].intent = Low})
       /\ \A f \in StatFields : DOMAIN stats[f] = {"number"}
       /\ \E i \in 1..n : batch[i].score = stats.maximum.number
       /\ \A i \in 1..n : batch[i].score <= stats.maximum.number
       /\ \E i \in 1..n : batch[i].score = stats.minimum.number
       /\ \A i \in 1..n : batch[i].score >= stats.minimum.number
       /\ LET a == stats.average.number
          IN /\ 2 * a * n - 2 * TotalScore(batch) \in (1 - n)..n
             /\ stats.minimum.number <= a
             /\ a <= stats.maximum.number

\* the batch 85, 50, 50 has mean 61.67 and the summary reports 62, 85 and 50
C17_Witness ==
  /\ Returned("calculateSummaryStats")
  /\ call.scoredLeads = <<[intent |-> High, score |-> 85], [intent |-> Medium, score |-> 50],
                          [intent |-> Medium, score |-> 50]>>
  /\ call.out.score_stats = [average |-> Num(62), maximum |-> Num(85), minimum |-> Num(50)]
  /\ call.out.intent_distribution = [high |-> 1, medium |-> 2, low |-> 0]

\* C18: for a batch of n > 0 records, each intent percentage is the text of the
\* tenth of a percent nearest to count / n * 100, and the three percentages add
\* up to 100.0 give or take one tenth.
C18_PercentagesSum ==
  (Returned("calculateSummaryStats") /\ call.scoredLeads # <<>>) =>
    LET n == Len(call.scoredLeads)
        counts == call.out.intent_distribution
        texts == call.out.intent_percentages
        tenths(k) == {t \in 0..1000 : /\ 2 * t * n - 2000 * counts[k] \in (0 - n)..n
                                      /\ texts[k] = fixed1(t) \o <<"%">>}
    IN /\ \A k \in IntentKeys : tenths(k) # {}
       /\ \A h \in tenths("high"), m \in tenths("medium"), l \in tenths("low") :
            h + m + l \in 999..1001

\* one High, one Medium and four Low records: 16.7%, 16.7% and 66.7%, which add
\* up to 100.1
C18_Witness ==
  /\ Returned("calculateSummaryStats")
  /\ Len(call.scoredLeads) = 6
  /\ call.out.intent_distribution = [high |-> 1, medium |-> 1, low |-> 4]
  /\ call.out.intent_percentages = [high |-> <<"16", ".", "7", "%">>,
                                    medium |-> <<"16", ".", "7", "%">>,
                                    low |-> <<"66", ".", "7", "%">>]

\* the last response is that of a POST /score request that stored its result set
ScoreStored == res.route = "POST /score" /\ res.status = 200

\* C19: getLatestResults returns no result set exactly when none is stored, and
\* once a POST /score request has stored its result set (no later request
\* stores one before the next response), getLatestResults returns that set: the
\* one with the id and the timestamp the request was answered with.
C19_LatestIsMostRecentlyStored ==
  /\ getLatestResults(results) = NoEntry <=> Len(results) = 0
  /\ ScoreStored =>
       /\ getLatestResults(results) # NoEntry
       /\ getLatestResults(results).id = res.results_id
       /\ getLatestResults(results).scoredAt = res.scored_at

\* what getLatestResults does return: nothing exactly when nothing is stored, and
\* otherwise a stored set no other set has a later timestamp than
C19_LatestHasGreatestTimestamp ==
  /\ getLatestResults(results) = NoEntry <=> Len(results) = 0
  /\ Len(results) > 0 =>
       /\ \E n \in DOMAIN results : getLatestResults(results) = results[n]
       /\ \A n \in DOMAIN results : results[n].scoredAt <= getLatestResults(results).scoredAt

\* this step completes a scoring run: it answers POST /score with 200
RunCompletes ==
  /\ res'.route = "POST /score" /\ res'.status = 200
  /\ <<res, results>>' # <<res, results>>

\* C20: a step that completes a scoring run adds one result set under an id no
\* stored set has, and every result set stored before it is still stored under
\* its id with the same records, count and timestamp; no other step changes
\* the stored results.
C20_RerunAddsGeneration ==
  [][ /\ RunCompletes =>
           /\ Len(results') = Len(results) + 1
           /\ ~mapHas(results, res'.results_id)
           /\ mapHas(results', res'.results_id)
           /\ \A n \in DOMAIN results : mapGet(results', results[n].id) = results[n]
      /\ ~RunCompletes => results' = results
    ]_vars

\* the records are those of the leads of a collection, one per lead, in order
RecordsOf(records, collection) ==
  /\ Len(records) = Len(collection.data)
  /\ InInputOrder(records, collection.data)

\* C21: with POST /score requests in progress at once, every handler holds the
\* records of its own leads only (those of leads 1..i-1 of the collection it
\* read, in order), a step changes the records of one handler at most, and a
\* result set that a step stores holds the records of the one handler that
\* finished: what that handler had pushed, then the rest, one record per lead
\* of its collection and in its order.
C21_RunsDoNotInterleave ==
  /\ [](\A r \in DOMAIN runs :
          runs[r].pc # "idle" =>
            /\ Len(runs[r].scoredLeads) = runs[r].i - 1
            /\ InInputOrder(runs[r].scoredLeads, runs[r].currentLeads.data))
  /\ [][ /\ \A r, q \in DOMAIN runs : (runs'[r] # runs[r] /\ runs'[q] # runs[q]) => r = q
         /\ results' # results =>
              LET stored == mapGet(results', res'.results_id)
              IN /\ res'.route = "POST /score" /\ res'.status = 200
                 /\ stored # NoEntry
                 /\ \/ /\ runs' = runs
                       /\ RecordsOf(stored.data, getCurrent(leads, currentLeadsId))
                    \/ \E r \in DOMAIN runs :
                         /\ runs[r].pc = "await" /\ runs'[r] = IdleRun
                         /\ RecordsOf(stored.data, runs[r].currentLeads)
                         /\ IsPrefix(runs[r].scoredLeads, stored.data)
        ]_vars

\* the second handler started while the first was in progress and has pushed a
\* record; the first has finished meanwhile and stored its result set
C21_Witness ==
  /\ MaxRuns >= 2
  /\ runs[1].pc = "idle"
  /\ runs[2].pc = "await" /\ runs[2].i = 2
  /\ Len(results) > 0
  /\ res.route = "POST /score" /\ res.status = 200

\* the detail of a role or industry sub-score, by its bracket
BracketText(score, full, half, none) ==
  CASE score = 20 -> <<full>>
    [] score = 10 -> <<half>>
    [] score = 0 -> <<none>>

\* C22: the details of a rule breakdown are three strings, in the order role,
\* industry, completeness: the role and industry strings name the bracket of
\* their sub-score (20, 10 or 0), and the completeness string is 'All fields
\* complete (+10 points)' for 10 points and otherwise 'Missing k fields (-m
\* points)' with k = 6 - present fields and m = 10 - completenessScore.
C22_RuleDetails ==
  Returned("calculateRuleScore") =>
    LET b == call.out
        present == PresentFields(call.lead)
    IN /\ Len(b.details) = 3
       /\ b.details[1] = BracketText(b.roleScore, "Decision maker role (+20 points)",
                                     "Influencer role (+10 points)",
                                     "Non-decision maker role (0 points)")
       /\ b.details[2] = BracketText(b.industryScore, "Perfect industry match (+20 points)",
                                     "Adjacent industry match (+10 points)",
                                     "No industry match (0 points)")
       /\ b.details[3] = IF b.completenessScore = 10
                         THEN <<"All fields complete (+10 points)">>
                         ELSE <<"Missing ", ToString(6 - present), " fields (-",
                                ToString(10 - b.completenessScore), " points)">>
       /\ b.completenessScore = 10 <=> present = 6

\* an influencer in an adjacent industry with two of the six fields empty
C22_Witness ==
  /\ Returned("calculateRuleScore")
  /\ call.out.details = << <<"Influencer role (+10 points)">>,
                           <<"Adjacent industry match (+10 points)">>,
                           <<"Missing ", "2", " fields (-", "4", " points)">> >>

\* lead k of the scored collection is the lead of the example: role 'CEO',
\* industry 'SaaS', all six fields non-empty, scored against an offer with the
\* ideal use cases ['B2B SaaS'] by a scorer that is not configured, without a
\* sub-scorer that throws
IsExample(k) ==
  /\ ~isConfigured
  /\ faultAt(faults, k) = "none"
  /\ offers[1].ideal_use_cases = << <<"B","2","B"," ","S","a","a","S">> >>
  /\ k \in DOMAIN leads[1].data
  /\ leads[1].data[k].role = <<"C","E","O">>
  /\ leads[1].data[k].industry = <<"S","a","a","S">>
  /\ \A f \in Range(requiredFields) : Len(leads[1].data[k][f]) > 0

\* C23: in fallback-only mode the lead of the example gets roleScore 20,
\* industryScore 20, completenessScore 10 and rule total 50, the classifier
\* answers High with 50 points, and the record stored for it has score 100 and
\* intent High.
C23_EndToEndExample ==
  \A n \in DOMAIN results : \A k \in DOMAIN results[n].data :
    IsExample(k) =>
      LET rec == results[n].data[k]
          ruleScore == calculateRuleScore(leads[1].data[k], offers[1])
          aiScore == getFallbackScore(leads[1].data[k], offers[1])
      IN /\ ruleScore.roleScore = 20
         /\ ruleScore.industryScore = 20
         /\ ruleScore.completenessScore = 10
         /\ ruleScore.total = 50
         /\ aiScore.intent = High /\ aiScore.aiPoints = 50
         /\ rec.breakdown = [rule_score |-> 50, ai_score |-> 50, final_score |-> 100]
         /\ rec.details.rule_breakdown = << <<"Decision maker role (+20 points)">>,
                                            <<"Perfect industry match (+20 points)">>,
                                            <<"All fields complete (+10 points)">> >>
         /\ rec.details.ai_source = "fallback"
         /\ rec.score = 100
         /\ rec.intent = High

\* the lead of the example is the second lead of a scored collection
C23_Witness ==
  /\ Len(results) = 1
  /\ IsExample(2)
  /\ results[1].data[2].score = 100

RECURSIVE CommaList(_)
\* the strings of a list, separated by ', '
CommaList(list) ==
  IF Len(list) = 0 THEN <<>>
  ELSE IF Len(list) = 1 THEN list[1]
  ELSE CommaList(SubSeq(list, 1, Len(list) - 1)) \o <<", ">> \o list[Len(list)]

\* 'Rule analysis: X/50 points (joined detail list)' of a record
RuleSummary(rec) ==
  <<"Rule analysis: ", ToString(rec.breakdown.rule_score), "/50 points", " ", "(">>
    \o CommaList(rec.details.rule_breakdown) \o <<")">>

\* the classifier reasoning of a record, as the reasoning string carries it
ClassifierPart(rec) == <<"AI analysis: ">> \o rec.details.ai_reasoning

\* the closing sentence of a tier
ClosingSentence(intent) ==
  CASE intent = High -> <<"High buying intent - strong fit and authority.">>
    [] intent = Medium -> <<"Medium buying intent - some positive indicators.">>
    [] intent = Low -> <<"Low buying intent - limited fit or authority.">>

\* the records of leads scored without an exception
ScoredRecords == {rec \in OutputRecords : "error" \notin DOMAIN rec.details}

\* C24 as stated: the reasoning of every lead scored without an exception is the
\* rule summary 'Rule analysis: X/50 points (joined detail list)' with X the
\* rule total, then the classifier reasoning if and only if it differs from the
\* generic placeholder, then the closing sentence of the tier of the record's
\* final intent, separated by single spaces.
C24_CompositeReasoning ==
  \A rec \in ScoredRecords :
    rec.reasoning =
      RuleSummary(rec) \o <<" ">>
        \o (IF rec.details.ai_reasoning # GenericReasoning
            THEN ClassifierPart(rec) \o <<" ">> ELSE <<>>)
        \o ClosingSentence(rec.intent)

\* C24 as the code has it: the rule summary is part of the reasoning if and only
\* if the rule total is above 0, the classifier reasoning if and only if it is
\* non-empty and differs from the generic placeholder, and the closing sentence
\* of the tier of the record's final intent always ends it.
C24_CompositeReasoningOfScoredRules ==
  \A rec \in ScoredRecords :
    rec.reasoning =
      (IF rec.breakdown.rule_score > 0 THEN RuleSummary(rec) \o <<" ">> ELSE <<>>)
        \o (IF rec.details.ai_reasoning # <<>> /\ rec.details.ai_reasoning # GenericReasoning
            THEN ClassifierPart(rec) \o <<" ">> ELSE <<>>)
        \o ClosingSentence(rec.intent)

\* a stored result set holds a record whose reasoning has no rule summary (rule
\* total 0) and a record whose reasoning has all three parts
C24_Witness ==
  \E n \in DOMAIN results :
    /\ \E rec \in Range(results[n].data) \cap ScoredRecords :
         /\ rec.breakdown.rule_score = 0
         /\ rec.details.ai_reasoning = GenericReasoning
         /\ rec.reasoning = ClosingSentence(Low)
    /\ \E rec \in Range(results[n].data) \cap ScoredRecords :
         /\ rec.breakdown.rule_score > 0
         /\ rec.details.ai_reasoning # GenericReasoning
         /\ rec.reasoning = RuleSummary(rec) \o <<" ">> \o ClassifierPart(rec) \o <<" ">>
                              \o ClosingSentence(rec.intent)

\* C25: validateLeadData looks at the keys of a lead, not at their values:
\* isValid is true iff the lead has all six required keys, and the errors are
\* one 'Missing field: <key>' for each absent key and nothing else (six for an
\* object without keys, none for a lead whose six values are empty strings).
C25_ValidationChecksPresence ==
  Returned("validateLeadData") =>
    LET absent == Range(requiredFields) \ DOMAIN call.lead
        errors == call.out.errors
    IN /\ call.out.isValid <=> absent = {}
       /\ Len(errors) = Cardinality(absent)
       /\ \A f \in absent : \E i \in DOMAIN errors : errors[i] = <<"Missing field: ", f>>
       /\ \A i \in DOMAIN errors : \E f \in absent : errors[i] = <<"Missing field: ", f>>

\* a lead with name and role only, both empty strings: four errors, none of
\* them for name or role
C25_Witness ==
  /\ Returned("validateLeadData")
  /\ call.lead = [name |-> <<>>, role |-> <<>>]
  /\ ~call.out.isValid
  /\ call.out.errors = << <<"Missing field: ", "company">>, <<"Missing field: ", "industry">>,
                          <<"Missing field: ", "location">>, <<"Missing field: ", "linkedin_bio">> >>

\* the required columns a CSV row lacks
LackingColumns(row) == Range(requiredFields) \ DOMAIN row

\* C26: of an uploaded file, a row that lacks one of the six required columns
\* is stored with isValid = false, counted in invalid_leads and listed in the
\* validation errors with 'Missing field: <key>' for each column it lacks; a row
\* that has the six columns, empty or not, is stored as valid and not listed.
C26_MissingColumnReported ==
  (Returned("uploadLeads") /\ call.out.status = 201) =>
    LET rows == call.rows
        lacking == {k \in DOMAIN rows : LackingColumns(rows[k]) # {}}
        response == call.out.response
    IN /\ \A k \in DOMAIN rows : call.out.stored.data[k].isValid <=> k \notin lacking
       /\ response.invalid_leads = Cardinality(lacking)
       /\ response.valid_leads = Len(rows) - Cardinality(lacking)
       /\ response.errors_count = Cardinality(lacking)
       /\ \A k \in lacking : \E i \in DOMAIN response.errors :
            /\ response.errors[i].line = k + 1
            /\ \A f \in LackingColumns(rows[k]) : \E j \in DOMAIN response.errors[i].errors :
                 response.errors[i].errors[j] = <<"Missing field: ", f>>

\* what the upload does: every row is stored as valid with its six keys, a
\* lacking column as the empty string, and no row is reported
C26_EveryRowStoredValid ==
  (Returned("uploadLeads") /\ call.out.status = 201) =>
    /\ \A k \in DOMAIN call.rows :
         /\ call.out.stored.data[k].isValid
         /\ \A f \in LackingColumns(call.rows[k]) : call.out.stored.data[k][f] = <<>>
    /\ call.out.response.invalid_leads = 0
    /\ call.out.response.errors_count = 0
    /\ call.out.response.errors = <<>>

\* C27: the offerId and leadsId of a result set that a step stores are the ids
\* of the offer and of the leads collection the finishing handler read when it
\* started, whatever was uploaded or deleted while it was suspended.
C27_ResultIdsOfScoredInputs ==
  [][ results' # results =>
        LET stored == mapGet(results', res'.results_id)
        IN /\ stored # NoEntry
           /\ runs' = runs =>
                /\ stored.offerId = getCurrent(offers, currentOfferId).id
                /\ stored.leadsId = getCurrent(leads, currentLeadsId).id
           /\ \A r \in DOMAIN runs :
                (runs[r].pc = "await" /\ runs'[r] = IdleRun) =>
                  /\ stored.offerId = runs[r].currentOffer.id
                  /\ stored.leadsId = runs[r].currentLeads.id
    ]_vars

\* C28: a step that is not the end of a scoring run (an offer or leads upload,
\* DELETE /offer, DELETE /leads, a POST /score that fails or suspends, GET
\* /results, the clock) leaves the stored result sets as they are; so once a
\* result set is stored one stays stored, and GET /results answers 200, and 404
\* only while nothing is stored.
C28_ResultsSurvive ==
  /\ [][ /\ ~(res'.route = "POST /score" /\ res'.status = 200) => results' = results
         /\ Len(results) > 0 => Len(results') > 0
         /\ (res'.route = "GET /results" /\ Len(results) > 0) => res'.status = 200
        ]_vars
  /\ [](res.route = "GET /results" => (res.status = 404 <=> Len(results) = 0))

\* GET /results answers 200 with the stored set after the offer and the leads
\* were deleted
C28_Witness ==
  /\ res.route = "GET /results" /\ res.status = 200
  /\ offers = <<>> /\ leads = <<>>
  /\ currentOfferId = NoId /\ currentLeadsId = NoId
  /\ Len(results) > 0

\* C29: in every output of a scoring run a record has score 0 if and only if
\* its details carry the error flag; a record of a lead scored without an
\* exception has 10, 30 or 50 classifier points and a score of at least 10.
C29_ZeroScoreIffError ==
  \A rec \in OutputRecords :
    /\ rec.score = 0 <=> ("error" \in DOMAIN rec.details /\ rec.details.error = TRUE)
    /\ "error" \notin DOMAIN rec.details =>
         /\ rec.breakdown.ai_score \in {10, 30, 50}
         /\ rec.score >= rec.breakdown.ai_score
         /\ rec.score >= 10

\* a stored result set holds the record of a lead whose scoring threw (score 0)
\* and the record of a lead scored with the least score there is, 10
C29_Witness ==
  \E n \in DOMAIN results :
    /\ \E rec \in Range(results[n].data) : rec.score = 0 /\ "error" \in DOMAIN rec.details
    /\ \E rec \in Range(results[n].data) :
         /\ "error" \notin DOMAIN rec.details
         /\ rec.breakdown = [rule_score |-> 0, ai_score |-> 10, final_score |-> 10]

\* C30: every stored leads collection holds a lead, so the current leads
\* collection is absent or non-empty; an upload answered 400 leaves the leads
\* and the pointer to the current collection as they were; and every handler in
\* progress scores, and every stored result set holds, at least one record.
C30_LeadsAbsentOrNonEmpty ==
  /\ [](/\ \A n \in DOMAIN leads : Len(leads[n].data) > 0 /\ leads[n].count = Len(leads[n].data)
        /\ \/ getCurrent(leads, currentLeadsId) = NoEntry
           \/ Len(getCurrent(leads, currentLeadsId).data) > 0
        /\ \A r \in DOMAIN runs : runs[r].pc # "idle" => Len(runs[r].currentLeads.data) > 0
        /\ \A n \in DOMAIN results : Len(results[n].data) > 0 /\ results[n].count > 0)
  /\ [][(res'.route = "POST /leads/upload" /\ res'.status = 400) =>
          /\ leads' = leads
          /\ currentLeadsId' = currentLeadsId
          /\ results' = results]_vars

\* an upload was answered 400 while a leads collection is current and a result
\* set of its leads is stored
C30_Witness ==
  /\ res.route = "POST /leads/upload" /\ res.status = 400
  /\ currentLeadsId # NoId
  /\ Len(getCurrent(leads, currentLeadsId).data) > 0
  /\ Len(results) > 0

\* the roles the rule engine's tests expect 10 points for
TestedInfluencerRoles ==
  { <<"S","e","n","i","o","r"," ","D","e","v","e","l","o","p","e","r">>,
    <<"P","r","i","n","c","i","p","a","l"," ","E","n","g","i","n","e","e","r">>,
    <<"T","e","a","m"," ","L","e","a","d">>,
    <<"P","r","o","d","u","c","t"," ","M","a","n","a","g","e","r">> }

\* C10: every influencer keyword taken as a role, and the roles 'Senior
\* Developer', 'Principal Engineer', 'Team Lead' and 'Product Manager', get
\* calculateRoleScore = 10.
C10_InfluencerRolesScore10 ==
  (Returned("calculateRoleScore")
     /\ call.role \in Range(INFLUENCER_ROLES) \cup TestedInfluencerRoles) => call.out = 10

====
